---- MODULE Spec2Model ----
(***************************************************************************)
(* State-machine model of the qwenchat2api gateway:                        *)
(*   - the stream translator  createQwenToOpenAIStreamTransformer          *)
(*     (src/main.ts) and its variant with think tags                       *)
(*     (src/unnamed/part_000),                                             *)
(*   - the request translator transformOpenAIRequestToQwen and the         *)
(*     POST /v1/chat/completions handler (src/main.ts),                    *)
(*   - the model-name helpers and parserMessages of the Node variant       *)
(*     (the JavaScript that follows the Dockerfile text in src/Dockerfile),*)
(*   - the upload subsystem (src/upload.js) and its Deno port              *)
(*     (src/unnamed/part_000),                                             *)
(*   - processMessagesForQwen, the message rewriting of the Deno port      *)
(*     (src/unnamed/part_000),                                             *)
(*   - authMiddleware and the upstream token of both Deno scripts          *)
(*     (src/main.ts, src/unnamed/part_000).                                *)
(***************************************************************************)
EXTENDS Integers, Sequences, FiniteSets, TLC

VARIABLES
    \* ---- stream translator (closure state of one transformer) ----
    buffer,          \* let buffer = ''            (sequence of text units)
    errorDetected,   \* let errorDetected = false
    sentImageUrls,   \* const sentImageUrls = new Set<string>()
    output,          \* everything handed to controller.enqueue, in order
    wire,            \* bytes the backend has written and transform has not yet received
    sent,            \* number of wire items the backend has written
    closed,          \* the upstream body has ended and flush has run
    alphabet,        \* the name of the set of wire items the backend of this run writes
    translator,      \* which createQwenToOpenAIStreamTransformer runs: "main.ts" or "part_000"
    written,         \* history: the wire items the backend has written, in order
    \* ---- POST /v1/chat/completions (src/main.ts) ----
    openAIRequest,   \* the request body of the client
    pc,              \* where the handler stands
    calls,           \* the upstream calls issued so far, in order
    sessionReply,    \* what the session-creation call came back with
    qwenRequest,     \* the body built for the backend
    status,          \* ctx.response.status (0: not yet set)
    uuids,           \* number of crypto.randomUUID() values drawn for the body
    \* ---- chat helpers (src/Dockerfile, the JavaScript part) ----
    modelName,       \* the model name handed to the helpers
    chatType,        \* isChatType(modelName), "" before the call
    parsedModel,     \* parserModel(modelName), <<>> before the call
    thinkingConfig,  \* isThinkingEnabled(modelName, ..), NoConfig before the call
    thinkingArgs,    \* the enable_thinking and thinking_budget of that call
    \* ---- uploadFileToQwenOss (src/upload.js and src/unnamed/part_000) ----
    variant,         \* which of the two implementations runs
    upArgs,          \* the arguments of the call
    upc,             \* where the call stands
    stsRetryCount,   \* retryCount of the running requestStsToken
    putRetryCount,   \* retryCount of the running uploadToOssWithSts
    stsResponses,    \* the answers received to the credential requests, in order
    putResponses,    \* the answers received to the object-storage PUTs, in order
    upResult,        \* what the call returned or threw
    clientConnected, \* the client of the owning request is still connected
    \* ---- parserMessages (src/Dockerfile), several calls in flight ----
    pcalls,          \* call -> the name of its arguments, see ParserCall
    pmsgs,           \* call -> its messages array, changed in place
    ppc,             \* call -> "start", "uploading" or "done"
    ppos,            \* call -> [m, i]: message and item the loops stand at
    pnc,             \* call -> newContent.length for the current message
    cache,           \* ContentCache: signature -> URL, "" when absent
    uploadsIssued,   \* history: the uploadFileToQwenOss calls, [call, signature]
    rewrites,        \* history: the items rewritten, [call, signature, url, via]
    failedItems,     \* history: the items whose upload threw, [call, m, i]
    rewriter,        \* which function rewrites the messages: "Dockerfile" or "part_000"
    \* ---- authMiddleware and the upstream token (src/main.ts, src/unnamed/part_000) ----
    server,          \* which script serves: "main.ts" or "part_000"
    config,          \* const config: [secret, useDenoEnv, tokens]
    tokenIndex,      \* let tokenIndex = 0 of part_000
    gwRequest,       \* the request in flight: [path, header]
    gpc,             \* where that request stands
    qwenToken,       \* ctx.state.qwenToken, NoToken when not set
    gwStatus,        \* ctx.response.status of that request (0: not yet set)
    gwCalls,         \* the upstream calls of that request, [api, token]
    served,          \* number of requests that have arrived
    tokensUsed,      \* history: the token of the upstream call of each request that made one
    \* ---- a second stream, translated while the first one is (src/main.ts) ----
    peer,            \* the closure state of its transformer and what it has enqueued
    peerInput,       \* the items its backend writes, each delivered as one chunk
    peerPos,         \* number of these items transform has received
    peerClosed       \* its upstream body has ended and flush has run

streamVars ==
    <<buffer, errorDetected, sentImageUrls, output, wire, sent, closed, alphabet, translator,
      written>>

reqVars == <<openAIRequest, pc, calls, sessionReply, qwenRequest, status, uuids>>

helperVars == <<modelName, chatType, parsedModel, thinkingConfig, thinkingArgs>>

uploadVars ==
    <<variant, upArgs, upc, stsRetryCount, putRetryCount, stsResponses, putResponses,
      upResult, clientConnected>>

parserVars ==
    <<pcalls, pmsgs, ppc, ppos, pnc, cache, uploadsIssued, rewrites, failedItems, rewriter>>

gatewayVars ==
    <<server, config, tokenIndex, gwRequest, gpc, qwenToken, gwStatus, gwCalls, served,
      tokensUsed>>

peerVars == <<peer, peerInput, peerPos, peerClosed>>

vars == <<streamVars, reqVars, helperVars, uploadVars, parserVars, gatewayVars, peerVars>>

\* what a step of one component leaves alone
streamOthers ==
    <<reqVars, helperVars, uploadVars, parserVars, gatewayVars, peerVars>>

reqOthers ==
    <<streamVars, helperVars, uploadVars, parserVars, gatewayVars, peerVars>>

helperOthers ==
    <<streamVars, reqVars, uploadVars, parserVars, gatewayVars, peerVars>>

uploadOthers ==
    <<streamVars, reqVars, helperVars, parserVars, gatewayVars, peerVars>>

parserOthers ==
    <<streamVars, reqVars, helperVars, uploadVars, gatewayVars, peerVars>>

gatewayOthers == <<streamVars, reqVars, helperVars, uploadVars, parserVars, peerVars>>

peerOthers == <<reqVars, helperVars, uploadVars, parserVars, gatewayVars>>

(***************************************************************************)
(* Bounds of the model.                                                    *)
(***************************************************************************)
MaxItems == 3

(***************************************************************************)
(* Text.  The receive buffer is a string; it is modelled as a sequence of  *)
(* text units, each a run of characters the network never cuts:            *)
(*   "\n"       one line feed                                              *)
(*   "data:"    the line prefix                                            *)
(*   "[DONE]"   the backend's end marker                                   *)
(*   "oops"     a run of text that is not JSON and does not start with "{" *)
(*   "{f", "f}" the two halves of the JSON text of the backend frame f:    *)
(*              "{f" followed by "f}" is the complete JSON document.       *)
(***************************************************************************)
NL == "\n"

PFX == "data:"

DONE == "[DONE]"

TXT == "oops"

J(f, p) == IF p = 1 THEN "{" \o f ELSE f \o "}"

CDN_URL == "https://cdn.qwenlm.ai/a.png"

OTHER_URL == "https://example.com/b.png"

\* content.startsWith('https://')
StartsWithHttps(c) == c \in {CDN_URL, OTHER_URL}

\* content.includes('cdn.qwenlm.ai')
IncludesCdn(c) == c = CDN_URL

(***************************************************************************)
(* Backend frames: the JSON documents the backend sends.  A frame is named *)
(* by an identifier; FrameOf gives the fields the translator reads.        *)
(*   success  "false" when the document carries success = false            *)
(*   shape    which of choices[0] / content / result the document has      *)
(*   delta    whether choices[0] has a delta (or message) object           *)
(***************************************************************************)
FrameIds ==
    {"err", "ans", "gen", "genfin", "t2i", "edit", "bare", "bareX", "fin", "stop", "res",
     "huge", "think", "lit", "litc", "cfin", "resfin"}

NoFrame ==
    [success |-> "absent", shape |-> "none", delta |-> FALSE, phase |-> "",
     chat_type |-> "", content |-> "", status |-> "", finish_reason |-> "",
     code |-> ""]

FrameOf(f) ==
    CASE f = "err"    -> [NoFrame EXCEPT !.success = "false", !.code = "X"]
      [] f = "ans"    -> [NoFrame EXCEPT !.shape = "choices", !.delta = TRUE,
                                         !.phase = "answer", !.content = "hi"]
      [] f = "gen"    -> [NoFrame EXCEPT !.shape = "choices", !.delta = TRUE,
                                         !.phase = "image_gen", !.content = CDN_URL]
      [] f = "genfin" -> [NoFrame EXCEPT !.shape = "choices", !.delta = TRUE,
                                         !.phase = "image_gen", !.content = CDN_URL,
                                         !.status = "finished"]
      [] f = "t2i"    -> [NoFrame EXCEPT !.shape = "choices", !.delta = TRUE,
                                         !.chat_type = "t2i", !.content = CDN_URL]
      [] f = "edit"   -> [NoFrame EXCEPT !.shape = "choices", !.delta = TRUE,
                                         !.chat_type = "image_edit", !.content = OTHER_URL]
      [] f = "bare"   -> [NoFrame EXCEPT !.shape = "content", !.content = CDN_URL]
      [] f = "bareX"  -> [NoFrame EXCEPT !.shape = "content", !.content = OTHER_URL]
      [] f = "fin"    -> [NoFrame EXCEPT !.shape = "choices", !.delta = TRUE,
                                         !.phase = "answer", !.status = "finished"]
      [] f = "stop"   -> [NoFrame EXCEPT !.shape = "choices", !.delta = FALSE,
                                         !.finish_reason = "stop"]
      [] f = "res"    -> [NoFrame EXCEPT !.shape = "result", !.content = "hi"]
      [] f = "huge"   -> [NoFrame EXCEPT !.shape = "choices", !.delta = TRUE,
                                         !.phase = "answer", !.content = "long"]
      [] f = "think"  -> [NoFrame EXCEPT !.shape = "choices", !.delta = TRUE,
                                         !.phase = "think", !.content = "hm"]
      [] f = "lit"    -> [NoFrame EXCEPT !.shape = "choices", !.delta = TRUE,
                                         !.phase = "answer", !.content = "a <think> b"]
      [] f = "litc"   -> [NoFrame EXCEPT !.shape = "choices", !.delta = TRUE,
                                         !.phase = "answer",
                                         !.content = "a <think> b </think> c"]
      [] f = "cfin"   -> [NoFrame EXCEPT !.shape = "content", !.finish_reason = "stop"]
      [] f = "resfin" -> [NoFrame EXCEPT !.shape = "result", !.content = "hi",
                                         !.finish_reason = "stop"]
      [] OTHER        -> NoFrame

\* the unit starts with "{": it is the first half of a frame's JSON text
IsJsonHead(u) == \E f \in FrameIds : u = J(f, 1)

\* the frame whose JSON text the unit starts
FrameIdOf(u) == CHOOSE f \in FrameIds : u = J(f, 1)

(***************************************************************************)
(* String helpers of the JavaScript runtime, on unit sequences.            *)
(***************************************************************************)
\* s.startsWith(u) for a one-unit prefix u
StartsWith(s, u) == Len(s) > 0 /\ s[1] = u

RECURSIVE TrimLeft(_)
TrimLeft(s) == IF Len(s) > 0 /\ s[1] = NL THEN TrimLeft(Tail(s)) ELSE s

RECURSIVE TrimRight(_)
TrimRight(s) ==
    IF Len(s) > 0 /\ s[Len(s)] = NL THEN TrimRight(SubSeq(s, 1, Len(s) - 1)) ELSE s

\* s.trim()
Trim(s) == TrimRight(TrimLeft(s))

\* s.includes('\n')
IncludesNL(s) == \E i \in 1..Len(s) : s[i] = NL

\* s.includes('\n\n')
IncludesNLNL(s) == \E i \in 1..(Len(s) - 1) : s[i] = NL /\ s[i + 1] = NL

\* s.split('\n'): cur is the piece being collected
RECURSIVE SplitNL(_, _)
SplitNL(s, cur) ==
    IF Len(s) = 0 THEN <<cur>>
    ELSE IF s[1] = NL THEN <<cur>> \o SplitNL(Tail(s), <<>>)
    ELSE SplitNL(Tail(s), Append(cur, s[1]))

\* s.split('\n\n'): separators are matched left to right, without overlap
RECURSIVE SplitNLNL(_, _)
SplitNLNL(s, cur) ==
    IF Len(s) = 0 THEN <<cur>>
    ELSE IF Len(s) >= 2 /\ s[1] = NL /\ s[2] = NL
         THEN <<cur>> \o SplitNLNL(SubSeq(s, 3, Len(s)), <<>>)
    ELSE SplitNLNL(Tail(s), Append(cur, s[1]))

\* buffer.includes('"success":false')
IncludesSuccessFalse(s) ==
    \E i \in 1..Len(s) : IsJsonHead(s[i]) /\ FrameOf(FrameIdOf(s[i])).success = "false"

\* JSON.parse(s) does not throw: s, leading and trailing whitespace aside, is
\* one complete JSON document
ParseOk(s) ==
    LET t == Trim(s)
    IN  Len(t) = 2 /\ IsJsonHead(t[1]) /\ t[2] = J(FrameIdOf(t[1]), 2)

\* JSON.parse(s), defined when ParseOk(s)
JsonParse(s) == FrameOf(FrameIdOf(Trim(s)[1]))

(***************************************************************************)
(* What transform and flush enqueue: OpenAI deltas                         *)
(* {choices:[{delta:{content}, finish_reason}]} and the terminal marker    *)
(* "data: [DONE]".                                                         *)
(***************************************************************************)
\* `![Image](${content})`
MdImage(c) == "![Image](" \o c \o ")"

\* the text of a unit sequence
RECURSIVE Join(_)
Join(s) == IF Len(s) = 0 THEN "" ELSE Head(s) \o Join(Tail(s))

\* `Error: ${errorMessage}`, and with rid `\nRequest ID: ${errorJson.request_id}`
\* (the frames of the model carry no request_id)
ErrorText(m, rid) == "Error: " \o m \o (IF rid THEN "\nRequest ID: undefined" ELSE "")

Chunk(content, finish) ==
    [t |-> "chunk", content |-> content, finish_reason |-> finish]

DoneMarker == [t |-> "[DONE]", content |-> "", finish_reason |-> "null"]

\* errorJson.data?.details || errorJson.data?.code || dflt  (the frames of the
\* model carry no details field)
ErrorMessage(q, dflt) == IF q.code # "" THEN q.code ELSE dflt

(***************************************************************************)
(* Content extraction, main.ts 562-652.  seen is sentImageUrls; the result *)
(* is the content to send, isFinished and the new sentImageUrls.           *)
(***************************************************************************)
\* DedupUrl without the sentImageUrls.has(content) test
DedupUrlNoCheck(url, seen) == [content |-> MdImage(url), seen |-> seen \cup {url}]

\* the three places that wrap a URL once and blank its repetitions
DedupUrl(url, seen) ==
    IF url \notin seen
    THEN [content |-> MdImage(url), seen |-> seen \cup {url}]
    ELSE [content |-> "", seen |-> seen]

ExtractChoices(q, seen) ==
    IF ~q.delta
    THEN [content |-> "", isFinished |-> FALSE, seen |-> seen]
    ELSE LET fin == q.status = "finished" \/ q.finish_reason = "stop"
             asset == \/ q.phase = "image_gen" /\ q.content # "" /\ StartsWithHttps(q.content)
                      \/ /\ q.phase # "image_gen"
                         /\ q.chat_type \in {"t2i", "image_edit"}
                         /\ StartsWithHttps(q.content)
             d == DedupUrl(q.content, seen)
         IN  IF asset
             THEN [content |-> d.content, isFinished |-> fin, seen |-> d.seen]
             ELSE [content |-> q.content, isFinished |-> fin, seen |-> seen]

ExtractContent(q, seen) ==
    LET fin == q.status = "finished" \/ q.finish_reason = "stop"
        d == DedupUrl(q.content, seen)
    IN  IF StartsWithHttps(q.content) /\ IncludesCdn(q.content)
        THEN [content |-> d.content, isFinished |-> fin, seen |-> d.seen]
        ELSE [content |-> q.content, isFinished |-> fin, seen |-> seen]

Extract(q, seen) ==
    IF q.shape = "choices" THEN ExtractChoices(q, seen)
    ELSE IF q.shape = "content" /\ q.content # "" THEN ExtractContent(q, seen)
    ELSE IF q.shape = "result" /\ q.content # ""
         THEN [content |-> q.content, isFinished |-> FALSE, seen |-> seen]
    ELSE [content |-> "", isFinished |-> FALSE, seen |-> seen]

(***************************************************************************)
(* The line loop of transform, main.ts 518-699.  st is the closure state   *)
(* [buffer, errorDetected, sentImageUrls, out], out being what the call    *)
(* has enqueued so far.                                                    *)
(***************************************************************************)
\* dataStr of a line, main.ts 521-526
DataStr(line) ==
    IF StartsWith(line, PFX) THEN Trim(SubSeq(line, 2, Len(line))) ELSE line

\* the per-line error branch, main.ts 538-555
LineError(st, q) ==
    [st EXCEPT !.out = Append(@, Chunk(ErrorText(ErrorMessage(q, "Stream error"), FALSE), "stop")),
               !.errorDetected = TRUE]

\* a parsed frame that is not an error, emitted whatever it holds
LineFrameAlways(st, q) ==
    LET x == Extract(q, st.sentImageUrls)
    IN  [st EXCEPT !.out = Append(@, Chunk(x.content, IF x.isFinished THEN "stop" ELSE "null")),
                   !.sentImageUrls = x.seen]

\* a parsed frame that is not an error, main.ts 562-674
LineFrame(st, q) ==
    LET x == Extract(q, st.sentImageUrls)
        emitted == IF x.content # "" \/ x.isFinished
                   THEN <<Chunk(x.content, IF x.isFinished THEN "stop" ELSE "null")>>
                   ELSE <<>>
    IN  [st EXCEPT !.out = @ \o emitted, !.sentImageUrls = x.seen]

\* the catch branch, main.ts 675-698
LineNotJson(st, dataStr) ==
    IF Len(Trim(dataStr)) > 0 /\ ~IsJsonHead(dataStr[1])
    THEN [st EXCEPT !.out = Append(@, Chunk(Join(dataStr), "null"))]
    ELSE st

ProcessLine(st, line) ==
    LET dataStr == DataStr(line)
    IN  IF Len(Trim(line)) = 0 THEN st
        ELSE IF dataStr = <<DONE>> THEN [st EXCEPT !.out = Append(@, DoneMarker)]
        ELSE IF ~ParseOk(dataStr) THEN LineNotJson(st, dataStr)
        ELSE IF JsonParse(dataStr).success = "false" THEN LineError(st, JsonParse(dataStr))
        ELSE LineFrame(st, JsonParse(dataStr))

RECURSIVE ProcessLines(_, _)
ProcessLines(st, lines) ==
    IF Len(lines) = 0 THEN st
    ELSE ProcessLines(ProcessLine(st, Head(lines)), Tail(lines))

(***************************************************************************)
(* transform(chunk, controller), main.ts 448-700.                          *)
(***************************************************************************)
MAX_BUFFER_SIZE == 100000

\* the length in characters of a unit: a unit is at most a few hundred
\* characters (what matters is the comparison with MAX_BUFFER_SIZE), but for
\* the frame "huge", whose JSON text is longer than the buffer may get: its
\* first half alone is
UnitLen(u) ==
    IF u = NL THEN 1
    ELSE IF u = J("huge", 1) THEN MAX_BUFFER_SIZE + 1
    ELSE 8

\* buffer.length
RECURSIVE StrLen(_)
StrLen(s) == IF Len(s) = 0 THEN 0 ELSE UnitLen(Head(s)) + StrLen(Tail(s))

\* the buffer-level error check, main.ts 469-500: taken when it returns early
BufferError(st) ==
    /\ ~st.errorDetected
    /\ IncludesSuccessFalse(st.buffer)
    /\ ParseOk(st.buffer)
    /\ JsonParse(st.buffer).success = "false"

\* the line splitting, main.ts 502-516: the lines to process and the new buffer
SplitBuffer(buf) ==
    IF IncludesNLNL(buf)
    THEN LET parts == SplitNLNL(buf, <<>>)
         IN  [lines |-> SubSeq(parts, 1, Len(parts) - 1), buffer |-> parts[Len(parts)]]
    ELSE IF IncludesNL(buf)
    THEN LET parts == SplitNL(buf, <<>>)
             lastLine == parts[Len(parts)]
         IN  IF Len(lastLine) > 0 /\ ~StartsWith(lastLine, PFX)
             THEN [lines |-> SubSeq(parts, 1, Len(parts) - 1), buffer |-> lastLine]
             ELSE [lines |-> parts, buffer |-> <<>>]
    ELSE [lines |-> <<>>, buffer |-> buf]

TransformChunk(st0, chunk) ==
    LET st == [st0 EXCEPT !.buffer = @ \o chunk]
    IN  IF StrLen(st.buffer) > MAX_BUFFER_SIZE
        THEN [st EXCEPT !.buffer = <<>>]
        ELSE IF BufferError(st)
        THEN [st EXCEPT
                !.out = @ \o <<Chunk(ErrorText(ErrorMessage(JsonParse(st.buffer),
                                                            "Unknown error from Qwen API"), TRUE),
                                     "stop"),
                               DoneMarker>>,
                !.errorDetected = TRUE,
                !.buffer = <<>>]
        ELSE LET sp == SplitBuffer(st.buffer)
             IN  ProcessLines([st EXCEPT !.buffer = sp.buffer], sp.lines)

(***************************************************************************)
(* flush(controller), main.ts 702-743.                                     *)
(***************************************************************************)
FlushStream(st) ==
    LET remaining == Trim(st.buffer)
        finalError ==
            IF /\ Len(remaining) > 0
               /\ ~st.errorDetected
               /\ ParseOk(remaining)
               /\ JsonParse(remaining).success = "false"
            THEN <<Chunk(ErrorText(ErrorMessage(JsonParse(remaining), "Final buffer error"),
                                   FALSE), "stop")>>
            ELSE <<>>
        marker == IF ~st.errorDetected THEN <<DoneMarker>> ELSE <<>>
    IN  [st EXCEPT !.out = @ \o finalError \o marker]

(***************************************************************************)
(* createQwenToOpenAIStreamTransformer of src/unnamed/part_000, 312-367:   *)
(* the translator of the single-file Deno script.  Its closure state is    *)
(* the buffer alone.                                                       *)
(***************************************************************************)
OpenTag == "<think>\n"

CloseTag == "\n</think>\n"

\* buffer.includes('<think>'): the buffer is what is left of the upstream
\* bytes, so the text can only come from a frame that carries it
IncludesOpenTag(s) == \E i \in 1..Len(s) : s[i] \in {J("lit", 1), J("litc", 1)}

\* buffer.includes('</think>')
IncludesCloseTag(s) == \E i \in 1..Len(s) : s[i] = J("litc", 1)

\* the think tags, part_000 337-343: both tests read the buffer
ThinkTags(q, buf) ==
    LET c1 == IF q.phase = "think" /\ ~IncludesOpenTag(buf)
              THEN OpenTag \o q.content ELSE q.content
    IN  IF q.phase = "answer" /\ IncludesOpenTag(buf) /\ ~IncludesCloseTag(buf)
        THEN CloseTag \o c1 ELSE c1

\* the body of the line loop, part_000 325-360
DenoProcessLine(st, line) ==
    LET dataStr == SubSeq(line, 2, Len(line))
    IN  IF ~StartsWith(line, PFX) THEN st
        ELSE IF ~ParseOk(dataStr) THEN st
        ELSE IF JsonParse(dataStr).shape # "choices" \/ ~JsonParse(dataStr).delta THEN st
        ELSE [st EXCEPT !.out =
                 Append(@, Chunk(ThinkTags(JsonParse(dataStr), st.buffer),
                                 IF JsonParse(dataStr).finish_reason # ""
                                 THEN JsonParse(dataStr).finish_reason ELSE "null"))]

RECURSIVE DenoProcessLines(_, _)
DenoProcessLines(st, lines) ==
    IF Len(lines) = 0 THEN st
    ELSE DenoProcessLines(DenoProcessLine(st, Head(lines)), Tail(lines))

\* transform, part_000 319-361
DenoTransformChunk(st, chunk) ==
    LET parts == SplitNLNL(st.buffer \o chunk, <<>>)
    IN  DenoProcessLines([st EXCEPT !.buffer = parts[Len(parts)]],
                         SubSeq(parts, 1, Len(parts) - 1))

\* flush, part_000 362-365
DenoFlushStream(st) == [st EXCEPT !.out = Append(@, DoneMarker)]

(***************************************************************************)
(* The backend and the network.  The backend writes wire items; the        *)
(* network hands transform the written bytes in chunks cut at any unit     *)
(* boundary.  A wire item is <<prefix, payload, line end>>:                *)
(*   <<"data:", f, "\n\n">>  "data: <json of f>\n\n", an event-stream frame*)
(*   <<"data:", f, "\n">>    the same frame ended by a single line feed    *)
(*   <<"", f, "">>           "<json of f>", a JSON body sent instead of an *)
(*                           event stream                                  *)
(* with payload "[DONE]" or "oops" for the end marker and for plain text.  *)
(***************************************************************************)
Framed(f) == <<"data:", f, "\n\n">>

FramedNL(f) == <<"data:", f, "\n">>

BareJson(f) == <<"", f, "">>

\* "data: <json of f>" without a line feed: the last frame of a body that
\* ends without a boundary
Unterminated(f) == <<"data:", f, "">>

\* the bytes of an item
Units(item) ==
    (IF item[1] = "data:" THEN <<PFX>> ELSE <<>>)
        \o (IF item[2] \in FrameIds THEN <<J(item[2], 1), J(item[2], 2)>> ELSE <<item[2]>>)
        \o (IF item[3] = "\n\n" THEN <<NL, NL>> ELSE IF item[3] = "\n" THEN <<NL>> ELSE <<>>)

\* the frames of a run that exercises the asset-URL paths
ImageFrames == {"gen", "t2i", "edit", "bare", "bareX"}

\* the frames of a run that exercises the emit condition: a URL and its
\* repetition, with and without the end of the phase, and the end of the
\* answer in each response shape
DeltaFrames == {"gen", "genfin", "fin", "cfin", "resfin"}

\* the frames of a run beside a second stream
PairFrames == {"gen", "err", "ans"}

\* the items the backend of a run may write, by the run's name
Items(name) ==
    CASE name = "errors" ->
            {Framed("err"), FramedNL("err"), BareJson("err"), Framed("ans"),
             Framed(DONE), Framed(TXT)}
      [] name = "images" -> {Framed(f) : f \in ImageFrames}
      [] name = "overflow" -> {Framed("huge"), Framed("ans"), FramedNL("ans")}
      [] name = "think" -> {Framed("think"), Framed("ans"), Framed("lit"), Framed("litc")}
      [] name = "pair" -> {Framed(f) : f \in PairFrames}
      [] name = "deltas" -> {Framed(f) : f \in DeltaFrames}
      [] name = "tail" -> {Framed("ans"), FramedNL("ans"), Unterminated("ans")}
      [] name = "nonjson" -> {Framed(TXT), Framed(J("ans", 1)), Framed("ans")}

\* the implementations a run of that name may use: the think-phase frames
\* and the payloads that are no JSON are run through both
Translators(name) ==
    IF name \in {"think", "nonjson", "tail"} THEN {"main.ts", "part_000"} ELSE {"main.ts"}

Closure == [buffer |-> buffer, errorDetected |-> errorDetected,
            sentImageUrls |-> sentImageUrls, out |-> <<>>]

StreamInit(name) ==
    /\ buffer = <<>>
    /\ errorDetected = FALSE
    /\ sentImageUrls = {}
    /\ output = <<>>
    /\ wire = <<>>
    /\ sent = 0
    /\ closed = FALSE
    /\ alphabet = name
    /\ translator \in Translators(name)
    /\ written = <<>>

\* the backend writes one more item
BackendWrite ==
    /\ ~closed
    /\ sent < MaxItems
    /\ \E item \in Items(alphabet) :
         /\ wire' = wire \o Units(item)
         /\ written' = Append(written, item)
    /\ sent' = sent + 1
    /\ UNCHANGED <<buffer, errorDetected, sentImageUrls, output, closed, alphabet, translator>>
    /\ UNCHANGED streamOthers

\* the runtime calls transform with the next chunk
Transform ==
    /\ ~closed
    /\ \E n \in 1..Len(wire) :
         \E st \in {IF translator = "main.ts"
                     THEN TransformChunk(Closure, SubSeq(wire, 1, n))
                     ELSE DenoTransformChunk(Closure, SubSeq(wire, 1, n))} :
             /\ buffer' = st.buffer
             /\ errorDetected' = st.errorDetected
             /\ sentImageUrls' = st.sentImageUrls
             /\ output' = output \o st.out
             /\ wire' = SubSeq(wire, n + 1, Len(wire))
    /\ UNCHANGED <<sent, closed, alphabet, translator, written>>
    /\ UNCHANGED streamOthers

\* the upstream body ends: the runtime calls flush
Flush ==
    /\ ~closed
    /\ wire = <<>>
    /\ LET st == IF translator = "main.ts" THEN FlushStream(Closure)
                 ELSE DenoFlushStream(Closure)
       IN  output' = output \o st.out
    /\ closed' = TRUE
    /\ UNCHANGED <<buffer, errorDetected, sentImageUrls, wire, sent, alphabet, translator,
                   written>>
    /\ UNCHANGED streamOthers

StreamNext == BackendWrite \/ Transform \/ Flush

(***************************************************************************)
(* A second request is streamed at the same time: the handler calls        *)
(* createQwenToOpenAIStreamTransformer() once per request (main.ts 1084),  *)
(* and buffer, errorDetected and sentImageUrls are locals of that call     *)
(* (431-445).  The second stream receives each of its frames as one chunk. *)
(***************************************************************************)
\* the streams the second backend may write
PeerInputs ==
    {<<Framed("gen"), Framed("ans")>>, <<Framed("ans"), Framed("gen"), Framed("gen")>>,
     <<Framed("err"), Framed("ans")>>, <<Framed("gen")>>}

\* createQwenToOpenAIStreamTransformer(): the state of a new transformer
NewClosure == [buffer |-> <<>>, errorDetected |-> FALSE, sentImageUrls |-> {}, out |-> <<>>]

\* the state a transformer would read if sentImageUrls and errorDetected
\* were module-level variables
OwnClosureShared(own, other) ==
    [own EXCEPT !.sentImageUrls = @ \cup other.sentImageUrls,
                !.errorDetected = @ \/ other.errorDetected]

\* the state the callbacks of a transformer read: the locals of its own
\* createQwenToOpenAIStreamTransformer call, whatever another call holds
OwnClosure(own, other) == own

PeerInit ==
    /\ peer = NewClosure
    /\ peerInput \in PeerInputs
    /\ peerPos = 0
    /\ peerClosed = FALSE

\* transform of the second stream receives its next frame
PeerTransform ==
    /\ ~peerClosed
    /\ peerPos < Len(peerInput)
    /\ peer' = TransformChunk(OwnClosure(peer, Closure), Units(peerInput[peerPos + 1]))
    /\ peerPos' = peerPos + 1
    /\ UNCHANGED <<peerInput, peerClosed>>
    /\ UNCHANGED streamVars
    /\ UNCHANGED peerOthers

\* the body of the second stream ends
PeerFlush ==
    /\ ~peerClosed
    /\ peerPos = Len(peerInput)
    /\ peer' = FlushStream(OwnClosure(peer, Closure))
    /\ peerClosed' = TRUE
    /\ UNCHANGED <<peerInput, peerPos>>
    /\ UNCHANGED streamVars
    /\ UNCHANGED peerOthers

PairNext == BackendWrite \/ Transform \/ Flush \/ PeerTransform \/ PeerFlush

(***************************************************************************)
(* Properties of the stream translator.                                    *)
(***************************************************************************)
ErrorTexts ==
    {ErrorText(m, rid) : m \in {"X", "Stream error", "Unknown error from Qwen API",
                                "Final buffer error"},
                         rid \in BOOLEAN}

IsErrorDelta(o) == o.t = "chunk" /\ o.content \in ErrorTexts

ErrorDeltas == {i \in 1..Len(output) : IsErrorDelta(output[i])}

Markers == {i \in 1..Len(output) : output[i] = DoneMarker}

\* the backend has written the success = false frame
ErrorWritten == \E i \in 1..Len(written) : written[i][2] = "err"

\* C1 (as claimed): a finished stream that received a success = false frame
\* holds exactly one error delta and exactly one "data: [DONE]" marker.
C1_OneErrorOneMarker ==
    (closed /\ ErrorWritten) => Cardinality(ErrorDeltas) = 1 /\ Cardinality(Markers) = 1

\* C2 (as claimed): once an error delta has been emitted, nothing received
\* afterwards, in the same chunk or a later one, is translated into a delta.
C2_NothingTranslatedAfterError ==
    \A i, j \in 1..Len(output) :
        (i < j /\ IsErrorDelta(output[i])) => output[j].t # "chunk"

\* C4 (as claimed): the output of every finished stream contains a
\* terminal marker.
C4_FinishedStreamHasMarker == closed => Cardinality(Markers) >= 1

Urls == {CDN_URL, OTHER_URL}

\* the chunks whose content is the markdown image of u
MdChunks(u) == {i \in 1..Len(output) : output[i].t = "chunk" /\ output[i].content = MdImage(u)}

\* the chunks whose content is u, wrapped or not
UrlChunks(u) ==
    {i \in 1..Len(output) : output[i].t = "chunk" /\ output[i].content \in {MdImage(u), u}}

\* at least two items were written, each a frame of fs that carries u
AllWritten(fs, u) ==
    /\ Len(written) >= 2
    /\ \A i \in 1..Len(written) : written[i][2] \in fs /\ FrameOf(written[i][2]).content = u

AssetFrames == {"gen", "t2i", "edit", "bare"}

BaseModel == <<"qwen", "-max">>

Suffixes ==
    {<<"-search">>, <<"-thinking">>, <<"-image">>, <<"-image", "-edit">>,
     <<"-image", "_edit">>, <<"-video">>, <<"-deep", "-research">>}

MaxSuffixes == 2

RECURSIVE SuffixRuns(_)
SuffixRuns(n) ==
    IF n = 0 THEN {<<>>}
    ELSE SuffixRuns(n - 1) \cup {r \o x : r \in SuffixRuns(n - 1), x \in Suffixes}

\* the model names of the requests: the base name and up to MaxSuffixes suffixes
ModelNames == {BaseModel \o r : r \in SuffixRuns(MaxSuffixes)}

\* a model that is undefined or ''
NoModel == <<>>

\* what the helpers are called with: a model name or none
HelperModels == ModelNames \cup {NoModel}

\* model.includes(pat): pat occurs at position i
OccursAt(model, pat, i) ==
    /\ i + Len(pat) - 1 <= Len(model)
    /\ SubSeq(model, i, i + Len(pat) - 1) = pat

Includes(model, pat) == \E i \in 1..Len(model) : OccursAt(model, pat, i)

\* model.endsWith(pat)
EndsWith(model, pat) ==
    Len(pat) <= Len(model) /\ SubSeq(model, Len(model) - Len(pat) + 1, Len(model)) = pat

\* model.replace(pat, ''): the first occurrence is removed
ReplaceFirst(model, pat) ==
    IF ~Includes(model, pat) THEN model
    ELSE LET i == CHOOSE k \in 1..Len(model) :
                     OccursAt(model, pat, k) /\ \A h \in 1..(k - 1) : ~OccursAt(model, pat, h)
         IN  SubSeq(model, 1, i - 1) \o SubSeq(model, i + Len(pat), Len(model))

\* isChatType with the -image test before the -image-edit test
isChatTypeImageFirst(model) ==
    IF model = NoModel THEN "t2t"
    ELSE IF Includes(model, <<"-search">>) THEN "search"
    ELSE IF Includes(model, <<"-image">>) THEN "t2i"
    ELSE IF Includes(model, <<"-image", "-edit">>) THEN "image_edit"
    ELSE IF Includes(model, <<"-video">>) THEN "t2v"
    ELSE IF Includes(model, <<"-deep", "-research">>) THEN "deep_research"
    ELSE "t2t"

\* isChatType, src/Dockerfile 33-48
isChatType(model) ==
    IF model = NoModel THEN "t2t"
    ELSE IF Includes(model, <<"-search">>) THEN "search"
    ELSE IF Includes(model, <<"-image", "-edit">>) THEN "image_edit"
    ELSE IF Includes(model, <<"-image">>) THEN "t2i"
    ELSE IF Includes(model, <<"-video">>) THEN "t2v"
    ELSE IF Includes(model, <<"-deep", "-research">>) THEN "deep_research"
    ELSE "t2t"

\* parserModel, src/Dockerfile 82-97: six replacements in sequence, each of
\* the first occurrence
parserModel(model) ==
    LET m1 == ReplaceFirst(model, <<"-search">>)
        m2 == ReplaceFirst(m1, <<"-thinking">>)
        m3 == ReplaceFirst(m2, <<"-edit">>)
        m4 == ReplaceFirst(m3, <<"-video">>)
        m5 == ReplaceFirst(m4, <<"-deep", "-research">>)
    IN  IF model = NoModel THEN <<"qwen3", "-coder", "-plus">>
        ELSE ReplaceFirst(m5, <<"-image">>)

\* thinking_budget arguments: absent, a number, a string that reads as a
\* number, or a text that is no number
Budget(n) == [kind |-> "number", n |-> n]

NumericString(n) == [kind |-> "numstr", n |-> n]

Budgets ==
    {[kind |-> "absent", n |-> 0], [kind |-> "text", n |-> 0]}
        \cup {Budget(n) : n \in {-5, 0, 1, 1000, 38911, 38912, 50000}}
        \cup {NumericString(n) : n \in {0, 1000, 38912}}

\* the value is truthy
Truthy(b) == b.kind \in {"text", "numstr"} \/ (b.kind = "number" /\ b.n # 0)

\* Number(b) is not NaN; it is then b.n
IsNumeric(b) == b.kind \in {"number", "numstr"}

DEFAULT_THINKING_BUDGET == 81920

BUDGET_CEILING == 38912

NoConfig ==
    [output_schema |-> "", thinking_enabled |-> FALSE, thinking_budget |-> 0, budget |-> 0]

\* no arguments yet
NoArgs == [enable_thinking |-> FALSE, thinking_budget |-> [kind |-> "absent", n |-> 0]]

\* isThinkingEnabled without the enable_thinking test
isThinkingEnabledSuffixOnly(model, enable_thinking, thinking_budget) ==
    [output_schema |-> "phase",
     thinking_enabled |-> model # NoModel /\ Includes(model, <<"-thinking">>),
     thinking_budget |-> DEFAULT_THINKING_BUDGET,
     budget |-> IF /\ model # NoModel
                   /\ Truthy(thinking_budget)
                   /\ IsNumeric(thinking_budget)
                   /\ thinking_budget.n > 0
                   /\ thinking_budget.n < BUDGET_CEILING
                THEN thinking_budget.n
                ELSE 0]

\* isThinkingEnabled with a budget accepted up to the ceiling included
isThinkingEnabledClosedCeiling(model, enable_thinking, thinking_budget) ==
    [output_schema |-> "phase",
     thinking_enabled |-> model # NoModel /\ (Includes(model, <<"-thinking">>) \/ enable_thinking),
     thinking_budget |-> DEFAULT_THINKING_BUDGET,
     budget |-> IF /\ model # NoModel
                   /\ Truthy(thinking_budget)
                   /\ IsNumeric(thinking_budget)
                   /\ thinking_budget.n > 0
                   /\ thinking_budget.n <= BUDGET_CEILING
                THEN thinking_budget.n
                ELSE 0]

\* isThinkingEnabled, src/Dockerfile 57-75; budget 0 stands for no budget
\* field.  Without a model the configuration is returned as it was built.
isThinkingEnabled(model, enable_thinking, thinking_budget) ==
    [output_schema |-> "phase",
     thinking_enabled |-> model # NoModel /\ (Includes(model, <<"-thinking">>) \/ enable_thinking),
     thinking_budget |-> DEFAULT_THINKING_BUDGET,
     budget |-> IF /\ model # NoModel
                   /\ Truthy(thinking_budget)
                   /\ IsNumeric(thinking_budget)
                   /\ thinking_budget.n > 0
                   /\ thinking_budget.n < BUDGET_CEILING
                THEN thinking_budget.n
                ELSE 0]

\* chat_type of transformOpenAIRequestToQwen, main.ts 224-229: three
\* assignments in sequence, the last test that holds wins
MainChatType(model) ==
    LET c1 == IF EndsWith(model, <<"-image">>) THEN "t2i" ELSE "t2t"
        c2 == IF EndsWith(model, <<"-image", "_edit">>) THEN "image_edit" ELSE c1
    IN  IF EndsWith(model, <<"-video">>) THEN "t2v" ELSE c2

\* qwenModel of transformOpenAIRequestToQwen, main.ts 232:
\* model.replace(/-(search|thinking|image|image_edit|video)$/, '')
MainQwenModel(model) ==
    IF EndsWith(model, <<"-image", "_edit">>) THEN SubSeq(model, 1, Len(model) - 2)
    ELSE IF \E t \in {"-search", "-thinking", "-image", "-video"} : EndsWith(model, <<t>>)
         THEN SubSeq(model, 1, Len(model) - 1)
    ELSE model

\* qwenModel of part_000, 288: every occurrence of the four tokens is removed
DenoQwenModel(model) ==
    SelectSeq(model, LAMBDA t : t \notin {"-search", "-thinking", "-image", "-video"})

(***************************************************************************)
(* Messages.  content is a string or an array of parts; a string is kept   *)
(* as the sequence of its segments, plain text or a markdown image         *)
(* "![Image](url)", so that both are [kind, parts] with parts of           *)
(*   [type |-> "text", v |-> the text]                                     *)
(*   [type |-> "md", v |-> the URL]          (string content only)         *)
(*   [type |-> "image_url", v |-> the URL]   (array content only)          *)
(*   [type |-> "image", v |-> the URL]       (array content only)          *)
(***************************************************************************)
Text(v) == [type |-> "text", v |-> v]

MdPart(v) == [type |-> "md", v |-> v]

ImageUrlPart(v) == [type |-> "image_url", v |-> v]

StringMsg(role, segs) == [role |-> role, content |-> [kind |-> "string", parts |-> segs]]

ArrayMsg(role, parts) == [role |-> role, content |-> [kind |-> "array", parts |-> parts]]

\* the string a string content stands for
RECURSIVE StringOf(_)
StringOf(segs) ==
    IF Len(segs) = 0 THEN ""
    ELSE (IF Head(segs).type = "md" THEN MdImage(Head(segs).v) ELSE Head(segs).v)
             \o StringOf(Tail(segs))

\* the message lists of the requests
MessageLists ==
    {<<>>,
     <<StringMsg("user", <<Text("draw a cat")>>)>>,
     <<StringMsg("system", <<Text("be brief")>>)>>,
     <<ArrayMsg("user", <<Text("make it blue"), ImageUrlPart("https://img/1.png")>>)>>,
     <<StringMsg("user", <<Text("draw a cat")>>),
       StringMsg("assistant", <<MdPart("https://img/2.png")>>),
       StringMsg("user", <<Text("make it blue")>>)>>,
     <<ArrayMsg("user", <<Text("like this"), ImageUrlPart("https://img/1.png")>>),
       StringMsg("assistant", <<MdPart("https://img/2.png")>>),
       ArrayMsg("user", <<Text("now edit this one"), ImageUrlPart("https://img/3.png")>>)>>}

\* openAIRequest.size: missing, a string "WxH" of two numbers, or a string
\* that holds no number
NoSize == [kind |-> "absent", w |-> 0, h |-> 0]

Size(w, h) == [kind |-> "WxH", w |-> w, h |-> h]

BadSize == [kind |-> "text", w |-> 0, h |-> 0]

Sizes ==
    {NoSize, BadSize, Size(0, 5),
     Size(1024, 1024), Size(1792, 1024), Size(1024, 1792), Size(1152, 768),
     Size(333, 111), Size(640, 480), Size(12, 8), Size(7, 5)}

\* the requests: messages is missing (or no array) when hasMessages is false;
\* size is read for an image-generation model only (main.ts 353), so the
\* other requests are taken without one
Requests ==
    {r \in [model : ModelNames, hasMessages : BOOLEAN, messages : MessageLists, size : Sizes] :
         r.size # NoSize => EndsWith(r.model, <<"-image">>)}

(***************************************************************************)
(* transformOpenAIRequestToQwen, main.ts 213-428, and the handler of       *)
(* POST /v1/chat/completions, main.ts 998-1102.                            *)
(***************************************************************************)
\* messages.filter(m => m.role === 'user').pop(): its index, 0 when there is none
LastUserIndex(messages) ==
    IF \E i \in 1..Len(messages) : messages[i].role = "user"
    THEN CHOOSE i \in 1..Len(messages) :
             /\ messages[i].role = "user"
             /\ \A j \in (i + 1)..Len(messages) : messages[j].role # "user"
    ELSE 0

\* the URLs of the parts of the given types, in order
RECURSIVE UrlsOf(_, _)
UrlsOf(parts, types) ==
    IF Len(parts) = 0 THEN <<>>
    ELSE (IF Head(parts).type \in types /\ Head(parts).v # "" THEN <<Head(parts).v>> ELSE <<>>)
             \o UrlsOf(Tail(parts), types)

\* the texts of the text parts, concatenated
RECURSIVE TextsOf(_)
TextsOf(parts) ==
    IF Len(parts) = 0 THEN ""
    ELSE (IF Head(parts).type = "text" THEN Head(parts).v ELSE "") \o TextsOf(Tail(parts))

\* textContent of the last user message, main.ts 255-270 and 369-378
TextContent(m) ==
    IF m.content.kind = "string" THEN StringOf(m.content.parts) ELSE TextsOf(m.content.parts)

\* s.slice(-3)
LastThree(s) == IF Len(s) <= 3 THEN s ELSE SubSeq(s, Len(s) - 2, Len(s))

\* extractImagesFromHistory, main.ts 148-194
RECURSIVE extractImagesFromHistoryAll(_)
extractImagesFromHistoryAll(messages) ==
    IF Len(messages) = 0 THEN <<>>
    ELSE LET m == Head(messages)
             found ==
                 IF m.role = "assistant" /\ m.content.kind = "string"
                 THEN UrlsOf(m.content.parts, {"md"})
                 ELSE IF m.role = "user" /\ m.content.kind = "string"
                 THEN UrlsOf(m.content.parts, {"md"})
                 ELSE IF m.role = "user"
                 THEN UrlsOf(m.content.parts, {"image_url", "image"})
                 ELSE <<>>
         IN  found \o extractImagesFromHistoryAll(Tail(messages))

extractImagesFromHistory(messages) == LastThree(extractImagesFromHistoryAll(messages))

NoBody ==
    [chat_id |-> "", session_id |-> "", model |-> <<>>, chat_type |-> "",
     sub_chat_type |-> "", subChatType |-> "", content |-> "", files |-> <<>>,
     thinking_enabled |-> FALSE, size |-> ""]

\* the image-editing body, main.ts 254-337
ImageEditBody(r, chatId) ==
    LET messages == r.messages
        last == messages[LastUserIndex(messages)]
        currentMessageImages ==
            IF last.content.kind = "array"
            THEN UrlsOf(last.content.parts, {"image_url", "image"})
            ELSE <<>>
        historyImages == extractImagesFromHistory(SubSeq(messages, 1, Len(messages) - 1))
        imagesToUse == LastThree(currentMessageImages \o historyImages)
        files == IF Len(imagesToUse) > 0 THEN <<imagesToUse[Len(imagesToUse)]>> ELSE <<>>
        ct == IF Len(files) > 0 THEN "image_edit" ELSE "t2i"
        text == TextContent(last)
    IN  [NoBody EXCEPT !.chat_id = chatId, !.model = MainQwenModel(r.model),
                       !.content = IF text # "" THEN text ELSE "Generate an image",
                       !.files = files, !.chat_type = ct, !.sub_chat_type = ct,
                       !.subChatType = ct]

\* `${a}:${b}`
Ratio(a, b) == ToString(a) \o ":" \o ToString(b)

\* sizeMap[openAISize], main.ts 355-364: "" for undefined
sizeMap(size) ==
    CASE size = Size(256, 256)   -> "1:1"
      [] size = Size(512, 512)   -> "1:1"
      [] size = Size(1024, 1024) -> "1:1"
      [] size = Size(1792, 1024) -> "16:9"
      [] size = Size(1024, 1792) -> "9:16"
      [] size = Size(2048, 2048) -> "1:1"
      [] size = Size(1152, 768)  -> "3:2"
      [] size = Size(768, 1152)  -> "2:3"
      [] OTHER                   -> ""

\* gcd of calculateAspectRatio, main.ts 203
RECURSIVE gcd(_, _)
gcd(a, b) == IF b = 0 THEN a ELSE gcd(b, a % b)

\* calculateAspectRatio with the ratio left unreduced
calculateAspectRatioUnreduced(size) ==
    IF size.kind # "WxH" \/ size.w = 0 \/ size.h = 0 THEN "1:1"
    ELSE Ratio(size.w, size.h)

\* calculateAspectRatio, main.ts 197-209: a part that is no number is NaN,
\* and NaN and 0 are falsy
calculateAspectRatio(size) ==
    IF size.kind # "WxH" \/ size.w = 0 \/ size.h = 0 THEN "1:1"
    ELSE Ratio(size.w \div gcd(size.w, size.h), size.h \div gcd(size.w, size.h))

\* qwenSize, main.ts 354-366
QwenSize(size) ==
    LET openAISize == IF size = NoSize THEN Size(1024, 1024) ELSE size
    IN  IF sizeMap(openAISize) # "" THEN sizeMap(openAISize)
        ELSE calculateAspectRatio(openAISize)

\* the image-generation body, main.ts 353-403
ImageBody(r, chatId) ==
    LET text == TextContent(r.messages[LastUserIndex(r.messages)])
    IN  [NoBody EXCEPT !.chat_id = chatId, !.model = MainQwenModel(r.model),
                       !.content = IF text # "" THEN text ELSE "Generate an image",
                       !.chat_type = "t2i", !.size = QwenSize(r.size)]

\* crypto.randomUUID(): the n-th value drawn
Uuid(n) == "uuid-" \o ToString(n)

\* the default body, main.ts 406-427
TextBody(r, n) ==
    [NoBody EXCEPT !.model = MainQwenModel(r.model), !.chat_type = "normal",
                   !.session_id = Uuid(n + 1), !.chat_id = Uuid(n + 2),
                   !.thinking_enabled = Includes(r.model, <<"-thinking">>)]

\* an upstream call: the session-creation POST or the chat POST with its
\* chat_id query parameter and body
NewChatCall(model, ct) ==
    [url |-> "chats/new", chat_id |-> "", model |-> model, chat_type |-> ct,
     body |-> NoBody]

ChatCall(chatId, body) ==
    [url |-> "chat/completions", chat_id |-> chatId, model |-> body.model,
     chat_type |-> body.chat_type, body |-> body]

\* the chat types for which transformOpenAIRequestToQwen creates a session
\* first, main.ts 242 and 341
NeedsSession(ct) == ct \in {"image_edit", "t2i"}

\* what the session endpoint can answer
SessionReplies == {"ok", "non2xx", "noId", "networkError"}

\* createNewChat that takes an id from every answer it gets
createNewChatAnyAnswer(reply) == IF reply = "networkError" THEN "" ELSE "chat-1"

\* createNewChat, main.ts 106-145: the chat id it returns, "" for null
createNewChat(reply) == IF reply = "ok" THEN "chat-1" ELSE ""

ReqInit ==
    /\ openAIRequest \in Requests
    /\ pc = "received"
    /\ calls = <<>>
    /\ sessionReply = "none"
    /\ qwenRequest = NoBody
    /\ status = 0
    /\ uuids = 0

\* the handler's catch, main.ts 1093-1101
Respond500 ==
    /\ status' = 500
    /\ pc' = "done"

\* the validation without the test for a user message
InvalidMessagesOnly(r) == ~r.hasMessages \/ Len(r.messages) = 0

\* the validation of transformOpenAIRequestToQwen throws, main.ts 215-221 and
\* 243-246, 342-345
Invalid(r) ==
    \/ ~r.hasMessages
    \/ Len(r.messages) = 0
    \/ NeedsSession(MainChatType(r.model)) /\ LastUserIndex(r.messages) = 0

\* the handler runs up to its first await
HandleRequest ==
    /\ pc = "received"
    /\ LET r == openAIRequest
           ct == MainChatType(r.model)
       IN  IF Invalid(r)
           THEN /\ Respond500
                /\ UNCHANGED <<calls, qwenRequest, uuids>>
           ELSE IF NeedsSession(ct)
           THEN /\ calls' = Append(calls, NewChatCall(MainQwenModel(r.model), ct))
                /\ pc' = "awaitSession"
                /\ UNCHANGED <<qwenRequest, status, uuids>>
           ELSE /\ qwenRequest' = TextBody(r, uuids)
                /\ uuids' = uuids + 2
                /\ calls' = Append(calls, ChatCall("", TextBody(r, uuids)))
                /\ pc' = "awaitChat"
                /\ UNCHANGED status
    /\ UNCHANGED <<openAIRequest, sessionReply>>
    /\ UNCHANGED reqOthers

\* createNewChat returns: the handler goes on to the chat call or fails
SessionReturns ==
    /\ pc = "awaitSession"
    /\ \E reply \in SessionReplies :
         LET chatId == createNewChat(reply)
             r == openAIRequest
             body == IF MainChatType(r.model) = "image_edit"
                     THEN ImageEditBody(r, chatId)
                     ELSE ImageBody(r, chatId)
         IN  /\ sessionReply' = reply
             /\ IF chatId = ""
                THEN /\ Respond500
                     /\ UNCHANGED <<calls, qwenRequest>>
                ELSE /\ qwenRequest' = body
                     /\ calls' = Append(calls, ChatCall(chatId, body))
                     /\ pc' = "awaitChat"
                     /\ UNCHANGED status
    /\ UNCHANGED <<openAIRequest, uuids>>
    /\ UNCHANGED reqOthers

\* the chat call returns: the stream starts, or the upstream status is
\* passed on, or fetch throws
ChatReturns ==
    /\ pc = "awaitChat"
    /\ \E reply \in {"ok", "non2xx", "networkError"} :
         status' = IF reply = "ok" THEN 200 ELSE IF reply = "non2xx" THEN 502 ELSE 500
    /\ pc' = "done"
    /\ UNCHANGED <<openAIRequest, calls, sessionReply, qwenRequest, uuids>>
    /\ UNCHANGED reqOthers

ReqNext == HandleRequest \/ SessionReturns \/ ChatReturns


(***************************************************************************)
(* The chat helpers applied to a model name.                               *)
(***************************************************************************)
HelpersInit ==
    /\ modelName \in HelperModels
    /\ chatType = ""
    /\ parsedModel = <<>>
    /\ thinkingConfig = NoConfig
    /\ thinkingArgs = NoArgs

CallIsChatType ==
    /\ chatType = ""
    /\ chatType' = isChatType(modelName)
    /\ UNCHANGED <<modelName, parsedModel, thinkingConfig, thinkingArgs>>
    /\ UNCHANGED helperOthers

CallParserModel ==
    /\ parsedModel = <<>>
    /\ parsedModel' = parserModel(modelName)
    /\ UNCHANGED <<modelName, chatType, thinkingConfig, thinkingArgs>>
    /\ UNCHANGED helperOthers

CallIsThinkingEnabled ==
    /\ thinkingConfig = NoConfig
    /\ \E e \in BOOLEAN, b \in Budgets :
         /\ thinkingConfig' = isThinkingEnabled(modelName, e, b)
         /\ thinkingArgs' = [enable_thinking |-> e, thinking_budget |-> b]
    /\ UNCHANGED <<modelName, chatType, parsedModel>>
    /\ UNCHANGED helperOthers

HelpersNext == CallIsChatType \/ CallParserModel \/ CallIsThinkingEnabled

(***************************************************************************)
(* uploadFileToQwenOss: the credential request with its retries, then the  *)
(* PUT to object storage.  src/upload.js is the Node implementation,       *)
(* src/unnamed/part_000 the one of the single-file Deno script.            *)
(***************************************************************************)
Variants == {"upload.js", "part_000"}

\* UPLOAD_CONFIG
maxRetries == 3

maxFileSize == 104857600

\* file_url of the n-th credential answer
FileUrl(n) == "https://oss/file-" \o ToString(n)

FILE_URL == FileUrl(1)

\* the arguments: a name and a token (possibly empty) and the buffer's length
UploadArgs ==
    [filename : {"", "a.png"}, authToken : {"", "token"},
     filesize : {0, 4, maxFileSize + 1}]

\* validateFileSize, upload.js 34-36
validateFileSize(fileSize) == fileSize > 0 /\ fileSize <= maxFileSize

\* what the credential endpoint can answer: 200 with all fields, 200 with a
\* field missing, 403, another 4xx, a 5xx, a timeout (ECONNABORTED or
\* ETIMEDOUT), another network error
StsOutcomes == {"ok", "incomplete", "403", "400", "500", "timeout", "networkError"}

\* what the PUT to object storage can end with: status 200, an authorization
\* failure (403), a 5xx
PutOutcomes == {"ok", "403", "500"}

NoResult == [kind |-> "none", status |-> 0, file_url |-> "", error |-> ""]

Returned == [kind |-> "returned", status |-> 200, file_url |-> FILE_URL, error |-> ""]

Thrown(e) == [kind |-> "thrown", status |-> 0, file_url |-> "", error |-> e]

\* the catch of requestStsToken in part_000, 99-107: does it retry?
DenoStsRetries(outcome, retryCount) == retryCount < maxRetries

\* the catch of requestStsToken in upload.js, 145-168: does it retry?
JsStsRetries(outcome, retryCount) ==
    /\ outcome # "403"
    /\ retryCount < maxRetries
    /\ outcome \in {"timeout", "500"}

\* the error requestStsToken throws for an answer it does not retry
JsStsError(outcome) == IF outcome = "403" THEN "authorization" ELSE outcome

\* the validation of uploadFileToQwenOss, upload.js 240-253 (a Buffer is never falsy)
JsArgsValid(a) ==
    /\ a.filename # ""
    /\ a.authToken # ""
    /\ validateFileSize(a.filesize)

UploadInit ==
    /\ variant \in Variants
    /\ upArgs \in UploadArgs
    /\ upc = "start"
    /\ stsRetryCount = 0
    /\ putRetryCount = 0
    /\ stsResponses = <<>>
    /\ putResponses = <<>>
    /\ upResult = NoResult
    /\ clientConnected = TRUE

\* the call runs up to the first credential request; upload.js validates first
UploadStart ==
    /\ upc = "start"
    /\ IF variant = "upload.js" /\ ~JsArgsValid(upArgs)
       THEN /\ upc' = "done"
            /\ upResult' = Thrown("validation")
       ELSE /\ upc' = "awaitSts"
            /\ UNCHANGED upResult
    /\ UNCHANGED <<variant, upArgs, stsRetryCount, putRetryCount, stsResponses, putResponses,
                   clientConnected>>
    /\ UNCHANGED uploadOthers

\* the credential endpoint answers
StsResponds ==
    /\ upc = "awaitSts"
    /\ \E outcome \in StsOutcomes :
         /\ stsResponses' = Append(stsResponses, outcome)
         /\ IF outcome = "ok"
            THEN /\ upc' = "awaitPut"
                 /\ UNCHANGED upResult
            ELSE IF variant = "upload.js"
            THEN IF JsStsRetries(outcome, stsRetryCount)
                 THEN /\ upc' = "stsDelay"
                      /\ UNCHANGED upResult
                 ELSE /\ upc' = "done"
                      /\ upResult' = Thrown(JsStsError(outcome))
            ELSE IF DenoStsRetries(outcome, stsRetryCount)
                 THEN /\ upc' = "stsDelay"
                      /\ UNCHANGED upResult
                 ELSE /\ upc' = "done"
                      /\ upResult' = Thrown(outcome)
    /\ UNCHANGED <<variant, upArgs, stsRetryCount, putRetryCount, putResponses, clientConnected>>
    /\ UNCHANGED uploadOthers

\* the backoff delay is over: requestStsToken calls itself with retryCount + 1
StsRetry ==
    /\ upc = "stsDelay"
    /\ stsRetryCount' = stsRetryCount + 1
    /\ upc' = "awaitSts"
    /\ UNCHANGED <<variant, upArgs, putRetryCount, stsResponses, putResponses, upResult,
                   clientConnected>>
    /\ UNCHANGED uploadOthers

\* object storage answers the PUT; only uploadToOssWithSts of upload.js,
\* 213-226, retries it
PutResponds ==
    /\ upc = "awaitPut"
    /\ \E outcome \in PutOutcomes :
         /\ putResponses' = Append(putResponses, outcome)
         /\ IF outcome = "ok"
            THEN /\ upc' = "done"
                 /\ upResult' = Returned
            ELSE IF variant = "upload.js" /\ putRetryCount < maxRetries
            THEN /\ upc' = "putDelay"
                 /\ UNCHANGED upResult
            ELSE /\ upc' = "done"
                 /\ upResult' = Thrown("put failed")
    /\ UNCHANGED <<variant, upArgs, stsRetryCount, putRetryCount, stsResponses, clientConnected>>
    /\ UNCHANGED uploadOthers

\* a retry of the PUT that asks for a credential again
PutRetryRefetch ==
    /\ upc = "putDelay"
    /\ putRetryCount' = putRetryCount + 1
    /\ upc' = "awaitSts"
    /\ UNCHANGED <<variant, upArgs, stsRetryCount, stsResponses, putResponses, upResult,
                   clientConnected>>
    /\ UNCHANGED uploadOthers

\* the backoff delay is over: uploadToOssWithSts calls itself with the same
\* credentials and file_info and retryCount + 1, upload.js 218-222
PutRetry ==
    /\ upc = "putDelay"
    /\ putRetryCount' = putRetryCount + 1
    /\ upc' = "awaitPut"
    /\ UNCHANGED <<variant, upArgs, stsRetryCount, stsResponses, putResponses, upResult,
                   clientConnected>>
    /\ UNCHANGED uploadOthers

\* the client of the request that owns the upload goes away.  Neither
\* uploadFileToQwenOss nor the functions it calls take an abort signal or
\* read the state of the request: nothing of the call changes.
ClientDisconnects ==
    /\ clientConnected
    /\ upc \notin {"idle", "done"}
    /\ clientConnected' = FALSE
    /\ UNCHANGED <<variant, upArgs, upc, stsRetryCount, putRetryCount, stsResponses,
                   putResponses, upResult>>
    /\ UNCHANGED uploadOthers

UploadNext ==
    UploadStart \/ StsResponds \/ StsRetry \/ PutResponds \/ PutRetry \/ ClientDisconnects

(***************************************************************************)
(* parserMessages, src/Dockerfile 106-219.  An item is [type, v,           *)
(* chat_type]: v is the text, the image_url.url or the image; chat_type is *)
(* the field parserMessages adds to a text item ("" before).  A message is *)
(* [role, content, chat_type, thinking], thinking being                    *)
(* feature_config.thinking_enabled.                                        *)
(***************************************************************************)
PItem(type, v) == [type |-> type, v |-> v, chat_type |-> ""]

PString(role, text) ==
    [role |-> role, content |-> [kind |-> "string", parts |-> <<PItem("text", text)>>],
     chat_type |-> "", thinking |-> FALSE]

PArray(role, parts) ==
    [role |-> role, content |-> [kind |-> "array", parts |-> parts],
     chat_type |-> "", thinking |-> FALSE]

\* inline images: "data:<mime>;base64,<payload>"
Mimes == {"image/png", "image/jpeg"}

Payloads == {"QUFB", "QkJC"}

DataUrl(mime, payload) == "data:" \o mime \o ";base64," \o payload

IMG_A == DataUrl("image/png", "QUFB")

IMG_B == DataUrl("image/png", "QkJC")

\* an image given by reference: image_url.url is a plain URL, no data URI
REF_URL == "https://example.com/cat.png"

\* base64.replace(/data:(.+);base64,/, ''), Dockerfile 131-136
StripDataPrefix(url) ==
    IF \E mime \in Mimes, d \in Payloads : url = DataUrl(mime, d)
    THEN CHOOSE d \in Payloads : \E mime \in Mimes : url = DataUrl(mime, d)
    ELSE url

\* sha256Encrypt of tools.js: a deterministic one-way hash, no collisions here
sha256Encrypt(text) == "sha256(" \o text \o ")"

Signatures == {sha256Encrypt(d) : d \in Payloads \cup {REF_URL}}

\* CacheManager of img-caches.js
cacheIsExist(c, signature) == c[signature] # ""

\* a lookup that answers with no URL
getCacheEmpty(c, signature) == [url |-> ""]

getCache(c, signature) == [url |-> c[signature]]

\* an insertion that files the URL under every signature
addCacheEverywhere(c, signature, url) == [g \in DOMAIN c |-> url]

addCache(c, signature, url) == [c EXCEPT ![signature] = url]

\* the cache test with the answer "not cached" whatever the cache holds
CacheHitNever(c, signature) == FALSE

\* the test of Dockerfile 141-142
CacheHit(c, signature) == cacheIsExist(c, signature)

\* the calls: messages, thinking_config.thinking_enabled and chat_type
PCall(messages, thinking, ct) ==
    [messages |-> messages, thinking |-> thinking, chat_type |-> ct]

\* the calls made, by name
ParserCalls ==
    {"A", "AA", "A+text", "B,text", "sys,AB+text", "sys,url+text", "sysimg,text", "none"}

ParserCall(name) ==
    CASE name = "A" ->
           PCall(<<PArray("user", <<PItem("image_url", IMG_A)>>)>>, FALSE, "t2t")
      [] name = "AA" ->
           PCall(<<PArray("user", <<PItem("image_url", IMG_A), PItem("image_url", IMG_A)>>)>>,
                 FALSE, "t2t")
      [] name = "A+text" ->
           PCall(<<PArray("user", <<PItem("image_url", IMG_A), PItem("text", "what is this")>>)>>,
                 TRUE, "t2t")
      [] name = "B,text" ->
           PCall(<<PArray("user", <<PItem("image_url", IMG_B)>>), PString("user", "and then")>>,
                 FALSE, "search")
      [] name = "sys,AB+text" ->
           PCall(<<PArray("system", <<PItem("text", "be "), PItem("text", "brief")>>),
                   PArray("user", <<PItem("image_url", IMG_A), PItem("image_url", IMG_B),
                                    PItem("text", "compare them")>>)>>,
                 FALSE, "t2t")
      [] name = "sys,url+text" ->
           PCall(<<PString("system", "be brief"),
                   PArray("user", <<PItem("image_url", REF_URL), PItem("text", "describe it")>>)>>,
                 FALSE, "t2t")
      [] name = "sysimg,text" ->
           PCall(<<PArray("system", <<PItem("image_url", IMG_B)>>), PString("user", "hello")>>,
                 FALSE, "t2t")
      [] OTHER -> PCall(<<>>, FALSE, "t2t")

\* the calls in flight
Callers == {"r1", "r2"}

\* the message the outer catch returns, Dockerfile 205-218
FallbackMessages == <<PString("user", "chat history processing failed")>>

\* Dockerfile 201-204, and 205-218 when the array is empty
ParserFinish(st, call) ==
    IF Len(st.msgs) = 0
    THEN [st EXCEPT !.msgs = <<[FallbackMessages[1] EXCEPT !.chat_type = "t2t"]>>,
                    !.pc = "done"]
    ELSE [st EXCEPT !.msgs[Len(st.msgs)].thinking = call.thinking,
                    !.msgs[Len(st.msgs)].chat_type = call.chat_type,
                    !.pc = "done"]

\* a pushed message whose content is a part list holding the text
AppendedMessageAsParts(text) ==
    [PArray("user", <<PItem("text", text)>>) EXCEPT !.chat_type = "t2t"]

\* the message pushed for a text part, Dockerfile 168-178: its content is
\* the string item.text
AppendedMessage(text) == [PString("user", text) EXCEPT !.chat_type = "t2t"]

\* the loops of Dockerfile 111-199 from the position of st up to the next
\* await or the end; i = 0 is the head of the message loop's body
RECURSIVE ParserRun(_, _, _)
ParserRun(st, call, c) ==
    IF st.m > Len(st.msgs) THEN ParserFinish(st, call)
    ELSE LET msg == st.msgs[st.m]
             nextMessage == [st EXCEPT !.m = st.m + 1, !.i = 0]
             nextItem == [st EXCEPT !.i = st.i + 1]
         IN  IF st.i = 0
             THEN IF msg.role \in {"user", "assistant"}
                  THEN LET marked == [msg EXCEPT !.chat_type = "t2t", !.thinking = FALSE]
                       IN  IF msg.content.kind # "array"
                           THEN ParserRun([nextMessage EXCEPT !.msgs[st.m] = marked], call, c)
                           ELSE ParserRun([st EXCEPT !.msgs[st.m] = marked, !.i = 1, !.nc = 0],
                                          call, c)
                  ELSE LET system_prompt == TextsOf(msg.content.parts)
                       IN  IF msg.content.kind = "array" /\ system_prompt # ""
                           THEN ParserRun([nextMessage EXCEPT !.msgs[st.m].content =
                                               [kind |-> "string",
                                                parts |-> <<PItem("text", system_prompt)>>]],
                                          call, c)
                           ELSE ParserRun(nextMessage, call, c)
             ELSE IF st.i > Len(msg.content.parts) THEN ParserRun(nextMessage, call, c)
             ELSE LET item == msg.content.parts[st.i]
                      signature == sha256Encrypt(StripDataPrefix(item.v))
                  IN  IF item.type = "image_url" /\ item.v # ""
                      THEN IF CacheHit(c, signature)
                           THEN ParserRun(
                                    [nextItem EXCEPT
                                        !.msgs[st.m].content.parts[st.i] =
                                            PItem("image", getCache(c, signature).url),
                                        !.nc = st.nc + 1,
                                        !.rew = Append(st.rew, [signature |-> signature,
                                                                url |-> getCache(c, signature).url])],
                                    call, c)
                           ELSE [st EXCEPT !.pc = "uploading"]
                      ELSE IF item.type = "text"
                      THEN IF st.nc >= 2
                           THEN ParserRun(
                                    [nextItem EXCEPT
                                        !.msgs = Append(
                                            [st.msgs EXCEPT
                                                ![st.m].content.parts[st.i].chat_type = "t2t"],
                                            AppendedMessage(item.v))],
                                    call, c)
                           ELSE ParserRun(
                                    [nextItem EXCEPT
                                        !.msgs[st.m].content.parts[st.i].chat_type = "t2t",
                                        !.nc = st.nc + 1],
                                    call, c)
                      ELSE ParserRun(nextItem, call, c)

\* the local state of a call
ParserState(p) ==
    [msgs |-> pmsgs[p], m |-> ppos[p].m, i |-> ppos[p].i, nc |-> pnc[p], pc |-> ppc[p],
     rew |-> <<>>]

\* the signature of the item a call stands at
SignatureAt(p) ==
    sha256Encrypt(StripDataPrefix(pmsgs[p][ppos[p].m].content.parts[ppos[p].i].v))

\* the place in uploadsIssued of the upload call p waits for
UploadIndex(p) ==
    CHOOSE k \in 1..Len(uploadsIssued) :
        /\ uploadsIssued[k].call = p
        /\ \A h \in (k + 1)..Len(uploadsIssued) : uploadsIssued[h].call # p

ParserInit ==
    /\ pcalls \in [Callers -> ParserCalls]
    /\ pmsgs = [p \in Callers |-> ParserCall(pcalls[p]).messages]
    /\ ppc = [p \in Callers |-> "start"]
    /\ ppos = [p \in Callers |-> [m |-> 1, i |-> 0]]
    /\ pnc = [p \in Callers |-> 0]
    /\ cache = [g \in Signatures |-> ""]
    /\ uploadsIssued = <<>>
    /\ rewrites = <<>>
    /\ failedItems = {}
    /\ rewriter = "Dockerfile"

\* st is where call p stands after running on to its next await
ParserAdvance(p, st) ==
    /\ pmsgs' = [pmsgs EXCEPT ![p] = st.msgs]
    /\ ppc' = [ppc EXCEPT ![p] = st.pc]
    /\ ppos' = [ppos EXCEPT ![p] = [m |-> st.m, i |-> st.i]]
    /\ pnc' = [pnc EXCEPT ![p] = st.nc]
    /\ uploadsIssued' =
           IF st.pc = "uploading"
           THEN Append(uploadsIssued,
                       [call |-> p,
                        signature |-> sha256Encrypt(StripDataPrefix(
                                          st.msgs[st.m].content.parts[st.i].v))])
           ELSE uploadsIssued

\* the items a run rewrote from the cache, as entries of rewrites
RewritesBy(p, rew) ==
    [k \in 1..Len(rew) |->
        [call |-> p, signature |-> rew[k].signature, url |-> rew[k].url, via |-> "cache"]]

\* parserMessages is called and runs up to its first await
ParserStart(p) ==
    /\ rewriter = "Dockerfile"
    /\ ppc[p] = "start"
    /\ LET st == ParserRun(ParserState(p), ParserCall(pcalls[p]), cache)
       IN  /\ ParserAdvance(p, st)
           /\ rewrites' = rewrites \o RewritesBy(p, st.rew)
    /\ UNCHANGED <<pcalls, cache, failedItems, rewriter>>
    /\ UNCHANGED parserOthers

\* the cache left as it was when an upload returns
CacheAfterUploadUnchanged(c, signature, url) == c

\* the cache after an upload returned, Dockerfile 153
CacheAfterUpload(c, signature, url) == addCache(c, signature, url)

\* uploadFileToQwenOss returns for call p, Dockerfile 148-156, and the call
\* runs on to its next await
UploadReturns(p) ==
    /\ ppc[p] = "uploading"
    /\ LET signature == SignatureAt(p)
           url == FileUrl(UploadIndex(p))
           c == CacheAfterUpload(cache, signature, url)
           st0 == ParserState(p)
           st1 == [st0 EXCEPT !.msgs[st0.m].content.parts[st0.i] = PItem("image", url),
                              !.nc = st0.nc + 1, !.i = st0.i + 1]
           st == ParserRun(st1, ParserCall(pcalls[p]), c)
       IN  /\ ParserAdvance(p, st)
           /\ cache' = c
           /\ rewrites' = rewrites
                  \o <<[call |-> p, signature |-> signature, url |-> url, via |-> "upload"]>>
                  \o RewritesBy(p, st.rew)
    /\ UNCHANGED <<pcalls, failedItems, rewriter>>
    /\ UNCHANGED parserOthers

\* uploadFileToQwenOss throws for call p: the catch of Dockerfile 158-160
\* logs, and the call runs on to its next await
UploadThrows(p) ==
    /\ ppc[p] = "uploading"
    /\ LET st0 == ParserState(p)
           st == ParserRun([st0 EXCEPT !.i = st0.i + 1], ParserCall(pcalls[p]), cache)
       IN  /\ ParserAdvance(p, st)
           /\ rewrites' = rewrites \o RewritesBy(p, st.rew)
    /\ failedItems' = failedItems \cup {[call |-> p, m |-> ppos[p].m, i |-> ppos[p].i]}
    /\ UNCHANGED <<pcalls, cache, rewriter>>
    /\ UNCHANGED parserOthers

ParserNext ==
    \E p \in Callers : ParserStart(p) \/ UploadReturns(p) \/ UploadThrows(p)

(***************************************************************************)
(* The front of the gateway: authMiddleware and the token the handlers     *)
(* send upstream.  src/main.ts 773-867 with the handlers 938-953 and       *)
(* 998-1061; src/unnamed/part_000 387-409 with getUpstreamToken 177-184    *)
(* and the handlers 459-470 and 505-534.  A token value is the sequence of *)
(* the tokens a comma-separated string names; a client token is the        *)
(* sequence of the parts a ";" separates.                                  *)
(***************************************************************************)
Servers == {"main.ts", "part_000"}

MaxTokens == 3

MaxRequests == 4

SECRET == "s3cret"

\* the i-th configured upstream token
Token(i) == "tok" \o ToString(i)

\* QWEN_TOKEN or API_KEY naming n tokens
TokenList(n) == [i \in 1..n |-> Token(i)]

NoToken == <<>>

\* the configurations the scripts start with: part_000 exits without
\* API_KEY (168-171), main.ts without QWEN_TOKEN in server-side mode
\* (1164-1168); in client-side mode main.ts does not read QWEN_TOKEN
Configs ==
    {c \in [secret : {"", SECRET}, useDenoEnv : BOOLEAN,
            tokens : {TokenList(n) : n \in 0..MaxTokens}] :
        (c.tokens = NoToken) = ~c.useDenoEnv}

ServerConfigs(srv) ==
    IF srv = "main.ts" THEN Configs ELSE {c \in Configs : c.useDenoEnv}

Paths == {"/", "/v1/models", "/v1/chat/completions", "/other"}

NoHeader == [scheme |-> "absent", parts |-> <<>>]

\* Authorization: <scheme> <part>;<part>;..
Header(scheme, parts) == [scheme |-> scheme, parts |-> parts]

Headers ==
    {NoHeader}
        \cup {Header("Bearer", ps) :
                ps \in {<<"">>, <<SECRET>>, <<"wrong">>, <<SECRET \o " ">>, <<SECRET, "tokC">>,
                        <<"wrong", "tokC">>, <<"tokC", "itna">>, <<SECRET, "">>}}
        \cup {Header("", <<SECRET>>), Header("Basic", <<SECRET>>)}

NoGwRequest == [path |-> "", header |-> NoHeader]

\* s.trim(), for the strings of Headers
TrimStr(s) == IF s = SECRET \o " " THEN SECRET ELSE s

\* authHeader?.replace(/^Bearer\s+/, ''): the parts of what is left, <<>> for
\* undefined; another scheme stays in front of the first part
ClientToken(h) ==
    IF h.scheme = "absent" THEN <<>>
    ELSE IF h.scheme \in {"Bearer", ""} THEN h.parts
    ELSE <<h.scheme \o " " \o h.parts[1]>> \o Tail(h.parts)

\* the token a part of the client token gives: parts[k]?.trim(), falsy when
\* missing or empty
PartToken(parts, k) ==
    IF k > Len(parts) \/ TrimStr(parts[k]) = "" THEN NoToken ELSE <<TrimStr(parts[k])>>

Pass(token) == [status |-> 0, qwenToken |-> token]

Deny == [status |-> 401, qwenToken |-> NoToken]

\* authMiddleware of main.ts without the test of the salt in server-side mode
authMiddlewareMainNoSaltTest(cfg, req) ==
    LET clientToken == ClientToken(req.header)
    IN  IF req.path = "/" THEN Pass(NoToken)
        ELSE IF cfg.useDenoEnv THEN Pass(cfg.tokens)
        ELSE IF clientToken \in {<<>>, <<"">>} THEN Deny
        ELSE IF cfg.secret # "" /\ Len(clientToken) < 2 THEN Deny
        ELSE IF cfg.secret # "" /\ TrimStr(clientToken[1]) # cfg.secret THEN Deny
        ELSE LET token == PartToken(clientToken, IF cfg.secret # "" THEN 2 ELSE 1)
             IN  IF token = NoToken THEN Deny ELSE Pass(token)

\* authMiddleware of main.ts, 773-864: status 0 when it calls next()
authMiddlewareMain(cfg, req) ==
    LET clientToken == ClientToken(req.header)
    IN  IF req.path = "/" THEN Pass(NoToken)
        ELSE IF cfg.useDenoEnv
        THEN IF cfg.secret # "" /\ clientToken # <<cfg.secret>>
             THEN Deny
             ELSE Pass(cfg.tokens)
        ELSE IF clientToken \in {<<>>, <<"">>} THEN Deny
        ELSE IF cfg.secret # "" /\ Len(clientToken) < 2 THEN Deny
        ELSE IF cfg.secret # "" /\ TrimStr(clientToken[1]) # cfg.secret THEN Deny
        ELSE LET token == PartToken(clientToken, IF cfg.secret # "" THEN 2 ELSE 1)
             IN  IF token = NoToken THEN Deny ELSE Pass(token)

\* authMiddleware of part_000, 387-409; cfg.secret is config.openaiApiKey
authMiddlewareDeno(cfg, req) ==
    IF req.path = "/" THEN Pass(NoToken)
    ELSE IF cfg.secret = "" THEN Pass(NoToken)
    ELSE IF ClientToken(req.header) = <<cfg.secret>> THEN Pass(NoToken)
    ELSE Deny

\* getUpstreamToken of part_000, 179-184: the token and the next index
getUpstreamToken(cfg, index) ==
    IF Len(cfg.tokens) = 0 THEN [token |-> NoToken, tokenIndex |-> index]
    ELSE [token |-> <<cfg.tokens[index + 1]>>,
          tokenIndex |-> (index + 1) % Len(cfg.tokens)]

\* the upstream call of a route: the model list or the chat call (the session
\* creation and the uploads of a chat request carry the same token)
UpstreamCall(path, token) ==
    [api |-> IF path = "/v1/models" THEN "models" ELSE "chat", token |-> token]

UpstreamRoutes == {"/v1/models", "/v1/chat/completions"}

GatewayInit ==
    /\ server \in Servers
    /\ config \in ServerConfigs(server)
    /\ tokenIndex = 0
    /\ gwRequest = NoGwRequest
    /\ gpc = "idle"
    /\ qwenToken = NoToken
    /\ gwStatus = 0
    /\ gwCalls = <<>>
    /\ served = 0
    /\ tokensUsed = <<>>

\* a request arrives; the one before it has been answered
Arrive ==
    /\ gpc \in {"idle", "answered"}
    /\ served < MaxRequests
    /\ \E path \in Paths, header \in Headers :
         gwRequest' = [path |-> path, header |-> header]
    /\ gpc' = "auth"
    /\ qwenToken' = NoToken
    /\ gwStatus' = 0
    /\ gwCalls' = <<>>
    /\ served' = served + 1
    /\ UNCHANGED <<server, config, tokenIndex, tokensUsed>>
    /\ UNCHANGED gatewayOthers

\* authMiddleware runs
Authenticate ==
    /\ gpc = "auth"
    /\ LET a == IF server = "main.ts" THEN authMiddlewareMain(config, gwRequest)
                ELSE authMiddlewareDeno(config, gwRequest)
       IN  /\ gwStatus' = a.status
           /\ qwenToken' = a.qwenToken
           /\ gpc' = IF a.status = 0 THEN "route" ELSE "answered"
    /\ UNCHANGED <<server, config, tokenIndex, gwRequest, gwCalls, served, tokensUsed>>
    /\ UNCHANGED gatewayOthers

\* the route of the path runs up to its upstream call
Route ==
    /\ gpc = "route"
    /\ gpc' = "answered"
    /\ IF gwRequest.path \in UpstreamRoutes
       THEN LET g == getUpstreamToken(config, tokenIndex)
                token == IF server = "main.ts" THEN qwenToken ELSE g.token
            IN  /\ tokenIndex' = IF server = "main.ts" THEN tokenIndex ELSE g.tokenIndex
                /\ IF token = NoToken
                   THEN /\ gwStatus' = IF server = "main.ts" THEN 401 ELSE 503
                        /\ UNCHANGED <<gwCalls, tokensUsed>>
                   ELSE /\ gwStatus' = 200
                        /\ gwCalls' = <<UpstreamCall(gwRequest.path, token)>>
                        /\ tokensUsed' = Append(tokensUsed, token)
       ELSE /\ gwStatus' = IF gwRequest.path = "/" THEN 200 ELSE 404
            /\ UNCHANGED <<tokenIndex, gwCalls, tokensUsed>>
    /\ UNCHANGED <<server, config, gwRequest, qwenToken, served>>
    /\ UNCHANGED gatewayOthers

GatewayNext == Arrive \/ Authenticate \/ Route

PeerIdle ==
    /\ peer = NewClosure
    /\ peerInput = <<>>
    /\ peerPos = 0
    /\ peerClosed = FALSE

GatewayIdle ==
    /\ server = "main.ts"
    /\ config = [secret |-> "", useDenoEnv |-> FALSE, tokens |-> NoToken]
    /\ tokenIndex = 0
    /\ gwRequest = NoGwRequest
    /\ gpc = "idle"
    /\ qwenToken = NoToken
    /\ gwStatus = 0
    /\ gwCalls = <<>>
    /\ served = 0
    /\ tokensUsed = <<>>

(***************************************************************************)
(* Specifications: one component runs, the others stay as constructed.     *)
(***************************************************************************)
StreamIdle ==
    /\ buffer = <<>>
    /\ errorDetected = FALSE
    /\ sentImageUrls = {}
    /\ output = <<>>
    /\ wire = <<>>
    /\ sent = 0
    /\ closed = FALSE
    /\ alphabet = "none"
    /\ translator = "main.ts"
    /\ written = <<>>

ReqIdle ==
    /\ openAIRequest =
           [model |-> BaseModel, hasMessages |-> FALSE, messages |-> <<>>, size |-> NoSize]
    /\ pc = "idle"
    /\ calls = <<>>
    /\ sessionReply = "none"
    /\ qwenRequest = NoBody
    /\ status = 0
    /\ uuids = 0

HelpersIdle ==
    /\ modelName = BaseModel
    /\ chatType = ""
    /\ parsedModel = <<>>
    /\ thinkingConfig = NoConfig
    /\ thinkingArgs = NoArgs

UploadIdle ==
    /\ variant = "upload.js"
    /\ upArgs = [filename |-> "", authToken |-> "", filesize |-> 0]
    /\ upc = "idle"
    /\ stsRetryCount = 0
    /\ putRetryCount = 0
    /\ stsResponses = <<>>
    /\ putResponses = <<>>
    /\ upResult = NoResult
    /\ clientConnected = TRUE

ParserIdle ==
    /\ pcalls = [p \in Callers |-> "none"]
    /\ pmsgs = [p \in Callers |-> <<>>]
    /\ ppc = [p \in Callers |-> "idle"]
    /\ ppos = [p \in Callers |-> [m |-> 1, i |-> 0]]
    /\ pnc = [p \in Callers |-> 0]
    /\ cache = [g \in Signatures |-> ""]
    /\ uploadsIssued = <<>>
    /\ rewrites = <<>>
    /\ failedItems = {}
    /\ rewriter = "Dockerfile"

InitStreamErrors ==
    StreamInit("errors") /\ ReqIdle /\ HelpersIdle /\ UploadIdle /\ ParserIdle
        /\ GatewayIdle /\ PeerIdle

SpecStreamErrors == InitStreamErrors /\ [][StreamNext]_vars

InitStreamImages ==
    StreamInit("images") /\ ReqIdle /\ HelpersIdle /\ UploadIdle /\ ParserIdle
        /\ GatewayIdle /\ PeerIdle

SpecStreamImages == InitStreamImages /\ [][StreamNext]_vars

InitStreamOverflow ==
    StreamInit("overflow") /\ ReqIdle /\ HelpersIdle /\ UploadIdle /\ ParserIdle
        /\ GatewayIdle /\ PeerIdle

SpecStreamOverflow == InitStreamOverflow /\ [][StreamNext]_vars

InitStreamThink ==
    StreamInit("think") /\ ReqIdle /\ HelpersIdle /\ UploadIdle /\ ParserIdle /\ GatewayIdle
        /\ PeerIdle

SpecStreamThink == InitStreamThink /\ [][StreamNext]_vars

InitStreamDeltas ==
    StreamInit("deltas") /\ ReqIdle /\ HelpersIdle /\ UploadIdle /\ ParserIdle /\ GatewayIdle
        /\ PeerIdle

SpecStreamDeltas == InitStreamDeltas /\ [][StreamNext]_vars

InitStreamNonJson ==
    StreamInit("nonjson") /\ ReqIdle /\ HelpersIdle /\ UploadIdle /\ ParserIdle /\ GatewayIdle
        /\ PeerIdle

SpecStreamNonJson == InitStreamNonJson /\ [][StreamNext]_vars

InitStreamTail ==
    StreamInit("tail") /\ ReqIdle /\ HelpersIdle /\ UploadIdle /\ ParserIdle /\ GatewayIdle
        /\ PeerIdle

SpecStreamTail == InitStreamTail /\ [][StreamNext]_vars

InitStreamPair ==
    StreamInit("pair") /\ PeerInit /\ ReqIdle /\ HelpersIdle /\ UploadIdle /\ ParserIdle
        /\ GatewayIdle

SpecStreamPair == InitStreamPair /\ [][PairNext]_vars

InitRequest ==
    ReqInit /\ StreamIdle /\ HelpersIdle /\ UploadIdle /\ ParserIdle /\ GatewayIdle
        /\ PeerIdle

SpecRequest == InitRequest /\ [][ReqNext]_vars

InitHelpers ==
    HelpersInit /\ StreamIdle /\ ReqIdle /\ UploadIdle /\ ParserIdle /\ GatewayIdle
        /\ PeerIdle

SpecHelpers == InitHelpers /\ [][HelpersNext]_vars

InitUpload ==
    UploadInit /\ StreamIdle /\ ReqIdle /\ HelpersIdle /\ ParserIdle /\ GatewayIdle
        /\ PeerIdle

SpecUpload == InitUpload /\ [][UploadNext]_vars

\* a run is a chat request or an upload
InitValidation == InitRequest \/ InitUpload

ValidationNext == ReqNext \/ UploadNext

SpecValidation == InitValidation /\ [][ValidationNext]_vars

InitParser ==
    ParserInit /\ StreamIdle /\ ReqIdle /\ HelpersIdle /\ UploadIdle /\ GatewayIdle
        /\ PeerIdle

SpecParser == InitParser /\ [][ParserNext]_vars

InitGateway ==
    GatewayInit /\ StreamIdle /\ ReqIdle /\ HelpersIdle /\ UploadIdle /\ ParserIdle
        /\ PeerIdle

SpecGateway == InitGateway /\ [][GatewayNext]_vars

(***************************************************************************)
(* Properties of parserMessages and the cache.                             *)
(***************************************************************************)
\* the inline images of the calls' arguments whose bytes have signature g
InlineImages(g) ==
    UNION {UNION {{<<p, m, i>> :
                      i \in {j \in 1..Len(ParserCall(pcalls[p]).messages[m].content.parts) :
                                LET item == ParserCall(pcalls[p]).messages[m].content.parts[j]
                                IN  /\ ParserCall(pcalls[p]).messages[m].content.kind = "array"
                                    /\ item.type = "image_url"
                                    /\ sha256Encrypt(StripDataPrefix(item.v)) = g}} :
                   m \in 1..Len(ParserCall(pcalls[p]).messages)} :
           p \in Callers}

UploadsFor(g) == Len(SelectSeq(uploadsIssued, LAMBDA u : u.signature = g))

RewritesFor(g) == SelectSeq(rewrites, LAMBDA r : r.signature = g)

RewriteUrls(g) == {RewritesFor(g)[k].url : k \in 1..Len(RewritesFor(g))}

AllDone == \A p \in Callers : ppc[p] = "done"

C9_FailedPartBecomesText ==
    \A f \in failedItems : pmsgs[f.call][f.m].content.parts[f.i].type = "text"

(***************************************************************************)
(* Properties of the chat helpers.                                         *)
(***************************************************************************)
Has(pat) == Includes(modelName, pat)

IsChatCall(k) == calls[k].url = "chat/completions"

IsNewChatCall(k) == calls[k].url = "chats/new"

\* C7 as stated: a chat call of an image or video request comes after a
\* successful session creation and carries that session's id; a chat call of
\* any other request comes with no session creation and carries fresh ids.
C7_SessionBeforeChat ==
    \A k \in 1..Len(calls) :
        IsChatCall(k) =>
            IF MainChatType(openAIRequest.model) \in {"t2i", "image_edit", "t2v"}
            THEN /\ \E h \in 1..(k - 1) : IsNewChatCall(h)
                 /\ sessionReply = "ok"
                 /\ calls[k].chat_id = createNewChat("ok")
                 /\ calls[k].body.chat_id = createNewChat("ok")
            ELSE /\ \A h \in 1..Len(calls) : ~IsNewChatCall(h)
                 /\ calls[k].body.session_id # ""
                 /\ calls[k].body.chat_id # ""
                 /\ calls[k].body.session_id # calls[k].body.chat_id

\* C8: when session creation fails (no 2xx, no id in the answer, or a
\* network error), the client gets an error answer (500) and no chat call
\* is ever issued for the request.
C8_SessionFailureIsFatal ==
    sessionReply \in {"non2xx", "noId", "networkError"} =>
        /\ pc = "done"
        /\ status = 500
        /\ \A k \in 1..Len(calls) : ~IsChatCall(k)

\* C8 witness: the session answer of an image-editing request carried no id
\* and the request was answered 500 after the one session call.
C8_Witness ==
    /\ MainChatType(openAIRequest.model) = "image_edit"
    /\ sessionReply = "noId"
    /\ status = 500
    /\ Len(calls) = 1
    /\ IsNewChatCall(1)

(***************************************************************************)
(* Properties of the upload.                                               *)
(***************************************************************************)
\* C10 as stated: a 403 answer to the credential request is the last one;
\* the call has failed right after it, whatever retry budget is left.
C10_No403Retry ==
    \A k \in 1..Len(stsResponses) :
        stsResponses[k] = "403" =>
            /\ k = Len(stsResponses)
            /\ upc = "done"
            /\ upResult.kind = "thrown"

\* C11 as stated: the credential request is repeated only after a timeout
\* or a 5xx answer, is sent at most 1 + maxRetries times, and any other
\* failure is the last answer: the call has failed without repeating it.
C11_RetriesOnlyTransient ==
    /\ Len(stsResponses) <= 1 + maxRetries
    /\ \A k \in 1..Len(stsResponses) :
           (k < Len(stsResponses) \/ upc = "stsDelay") =>
               stsResponses[k] \in {"timeout", "500"}
    /\ \A k \in 1..Len(stsResponses) :
           stsResponses[k] \in {"incomplete", "400", "networkError"} =>
               /\ k = Len(stsResponses)
               /\ upc = "done"
               /\ upResult.kind = "thrown"

(***************************************************************************)
(* Properties of the receive buffer.                                       *)
(***************************************************************************)
\* the chunk carries text of the frame "huge": its content or a piece of
\* its JSON text
OfHugeFrame(c) ==
    c.t = "chunk" /\ c.content \in {FrameOf("huge").content, J("huge", 1), J("huge", 2)}

\* C12 as stated: a buffer longer than MAX_BUFFER_SIZE is discarded in full
\* and nothing of the frame that overflowed it reaches the client, the part
\* of the frame that arrives after the discard included.
C12_DiscardedFrameNotEmitted ==
    /\ StrLen(buffer) <= MAX_BUFFER_SIZE
    /\ \A i \in 1..Len(output) : ~OfHugeFrame(output[i])

(***************************************************************************)
(* Properties of the think-annotation wrapper.                             *)
(***************************************************************************)
Contents == {FrameOf(f).content : f \in FrameIds}

\* the deltas that open the wrapper, and those that close it
Opens == {i \in 1..Len(output) : \E c \in Contents : output[i].content = OpenTag \o c}

Closes == {i \in 1..Len(output) : \E c \in Contents : output[i].content = CloseTag \o c}

\* the backend wrote a frame of that phase as its k-th item
PhaseAt(k, phase) == FrameOf(written[k][2]).phase = phase

\* C13 as stated: the wrapper is opened at most once and closed at most
\* once; a stream that ended after a think-phase frame has opened it, and
\* one where an answer-phase frame followed a think-phase frame has closed
\* it.
C13_ThinkWrapperOnce ==
    /\ Cardinality(Opens) <= 1
    /\ Cardinality(Closes) <= 1
    /\ closed /\ (\E k \in 1..Len(written) : PhaseAt(k, "think")) => Cardinality(Opens) = 1
    /\ closed /\ (\E k \in 1..Len(written) : \E h \in 1..(k - 1) :
                      PhaseAt(h, "think") /\ PhaseAt(k, "answer"))
           => Cardinality(Closes) = 1

(***************************************************************************)
(* Properties of isThinkingEnabled.                                        *)
(***************************************************************************)
\* C14 as stated: thinking is enabled exactly when the model name contains
\* -thinking or the enable_thinking flag is set, whatever else is passed.
C14_EnabledIffSuffixOrFlag ==
    thinkingConfig # NoConfig =>
        (thinkingConfig.thinking_enabled <=>
             Has(<<"-thinking">>) \/ thinkingArgs.enable_thinking)

\* C14 amended: called with a model name, isThinkingEnabled enables thinking
\* exactly when the name contains -thinking or the flag is set, whatever the
\* budget is (qwen-max without the flag: disabled; qwen-max-thinking without
\* the flag: enabled); called without a model it returns thinking disabled,
\* whatever the flag.
C14_EnabledIffSuffixOrFlagWithModel ==
    thinkingConfig # NoConfig =>
        /\ modelName # NoModel =>
               (thinkingConfig.thinking_enabled <=>
                    Has(<<"-thinking">>) \/ thinkingArgs.enable_thinking)
        /\ modelName = NoModel => ~thinkingConfig.thinking_enabled
        /\ modelName = BaseModel /\ ~thinkingArgs.enable_thinking =>
               ~thinkingConfig.thinking_enabled
        /\ modelName = BaseModel \o <<"-thinking">> => thinkingConfig.thinking_enabled

\* C14 witness: qwen-max-search was resolved with the flag set and a budget
\* that is out of range, and thinking is enabled.
C14_Witness ==
    /\ modelName = BaseModel \o <<"-search">>
    /\ thinkingArgs = [enable_thinking |-> TRUE, thinking_budget |-> Budget(50000)]
    /\ thinkingConfig.thinking_enabled

\* the budget passed is a number, or a string that reads as one, in the
\* open range (0, BUDGET_CEILING)
BudgetInRange ==
    /\ IsNumeric(thinkingArgs.thinking_budget)
    /\ thinkingArgs.thinking_budget.n > 0
    /\ thinkingArgs.thinking_budget.n < BUDGET_CEILING

\* C15 as stated: the override is the supplied budget exactly when that is
\* numeric and in (0, 38912); otherwise there is no override; the default
\* budget 81920 is in the configuration.
C15_BudgetIffInRange ==
    thinkingConfig # NoConfig =>
        /\ BudgetInRange => thinkingConfig.budget = thinkingArgs.thinking_budget.n
        /\ ~BudgetInRange => thinkingConfig.budget = 0
        /\ thinkingConfig.thinking_budget = DEFAULT_THINKING_BUDGET

\* C15 amended: called with a model name, isThinkingEnabled sets the budget
\* override to the supplied value exactly when that is numeric and in
\* (0, 38912) (1000 and 38911 are accepted; 0, 38912 and 50000 are not);
\* called without a model it sets no override, whatever the budget; the
\* default thinking_budget 81920 is in the configuration in every case.
C15_BudgetIffInRangeWithModel ==
    thinkingConfig # NoConfig =>
        /\ modelName # NoModel /\ BudgetInRange =>
               thinkingConfig.budget = thinkingArgs.thinking_budget.n
        /\ modelName = NoModel \/ ~BudgetInRange => thinkingConfig.budget = 0
        /\ thinkingConfig.thinking_budget = DEFAULT_THINKING_BUDGET
        /\ modelName # NoModel /\ thinkingArgs.thinking_budget \in {Budget(1000), Budget(38911)} =>
               thinkingConfig.budget = thinkingArgs.thinking_budget.n
        /\ thinkingArgs.thinking_budget \in {Budget(0), Budget(38912), Budget(50000)} =>
               thinkingConfig.budget = 0

\* C15 witness: qwen-max-thinking was resolved with the largest accepted
\* budget, and the override is that budget.
C15_Witness ==
    /\ modelName = BaseModel \o <<"-thinking">>
    /\ thinkingArgs.thinking_budget = Budget(38911)
    /\ thinkingConfig.budget = 38911
    /\ thinkingConfig.thinking_budget = DEFAULT_THINKING_BUDGET

(***************************************************************************)
(* Properties of the size of an image-generation request.                  *)
(***************************************************************************)
\* the request is an image generation and its body is built
ImageBodyBuilt == MainChatType(openAIRequest.model) = "t2i" /\ qwenRequest.chat_id # ""

\* a and b are w and h divided by their greatest common divisor
Reduced(a, b, w, h) ==
    /\ a * h = b * w
    /\ \A d \in 2..a : ~(a % d = 0 /\ b % d = 0)

\* C16: for an image generation a size of the preset table gives the
\* table's aspect ratio (1792x1024 gives 16:9, not the reduced 7:4), any
\* other size WxH of positive integers gives (W/g):(H/g) with g = gcd(W, H)
\* (333x111 gives 3:1), and the ratio depends on the size alone.
C16_SizeToAspectRatio ==
    ImageBodyBuilt =>
        LET z == openAIRequest.size
        IN  /\ z = Size(1024, 1024) => qwenRequest.size = "1:1"
            /\ z = Size(1792, 1024) => qwenRequest.size = "16:9"
            /\ z = Size(1024, 1792) => qwenRequest.size = "9:16"
            /\ z = Size(1152, 768) => qwenRequest.size = "3:2"
            /\ z = Size(333, 111) => qwenRequest.size = "3:1"
            /\ z \in {Size(333, 111), Size(640, 480), Size(12, 8), Size(7, 5)} =>
                   \E a \in 1..z.w, b \in 1..z.h :
                       Reduced(a, b, z.w, z.h) /\ qwenRequest.size = Ratio(a, b)
            /\ qwenRequest.size = QwenSize(z)

\* C16 witness: an image generation with size 640x480 was sent with 4:3.
C16_Witness ==
    /\ pc = "awaitChat"
    /\ openAIRequest.size = Size(640, 480)
    /\ qwenRequest.chat_type = "t2i"
    /\ qwenRequest.size = "4:3"
    /\ calls[Len(calls)].body.size = "4:3"

(***************************************************************************)
(* Properties of the image selection of an image-editing request.          *)
(***************************************************************************)
\* the image references of the messages, oldest first
RECURSIVE ImageRefs(_)
ImageRefs(messages) ==
    IF Len(messages) = 0 THEN <<>>
    ELSE UrlsOf(Head(messages).content.parts, {"md", "image_url", "image"})
             \o ImageRefs(Tail(messages))

\* the image references of the last user message
CurrentImages ==
    UrlsOf(openAIRequest.messages[LastUserIndex(openAIRequest.messages)].content.parts,
           {"md", "image_url", "image"})

\* the body of an image-editing request is built
EditBodyBuilt ==
    /\ MainChatType(openAIRequest.model) = "image_edit"
    /\ qwenRequest.chat_id # ""

\* C17 as stated: the edit target sent upstream is the most recent image
\* reference of the conversation, one of the current user turn when that
\* turn has an image.
C17_EditTargetIsMostRecent ==
    EditBodyBuilt /\ ImageRefs(openAIRequest.messages) # <<>> =>
        LET refs == ImageRefs(openAIRequest.messages)
        IN  /\ qwenRequest.files = <<refs[Len(refs)]>>
            /\ CurrentImages # <<>> =>
                   \E k \in 1..Len(CurrentImages) : qwenRequest.files = <<CurrentImages[k]>>

(***************************************************************************)
(* Properties of concurrent calls of parserMessages.                       *)
(***************************************************************************)
\* the uploads of signature g that returned
SuccessfulUploads(g) ==
    SelectSeq(rewrites, LAMBDA r : r.signature = g /\ r.via = "upload")

\* the uploads of signature g that call p issued
UploadsBy(p, g) ==
    Len(SelectSeq(uploadsIssued, LAMBDA u : u.call = p /\ u.signature = g))

C19_NoRetryAfterDisconnect ==
    [][~clientConnected =>
           /\ stsRetryCount' = stsRetryCount
           /\ putRetryCount' = putRetryCount
           /\ upc' \in {"stsDelay", "putDelay"} => upc' = upc]_vars

(***************************************************************************)
(* Properties of the validation.                                           *)
(***************************************************************************)
\* the chat request is one the validation rejects: messages missing (or no
\* array) or empty, or an image model without a user message
RequestRejected ==
    /\ pc # "idle"
    /\ \/ ~openAIRequest.hasMessages
       \/ openAIRequest.messages = <<>>
       \/ /\ \/ EndsWith(openAIRequest.model, <<"-image">>)
             \/ EndsWith(openAIRequest.model, <<"-image", "_edit">>)
          /\ ~EndsWith(openAIRequest.model, <<"-video">>)
          /\ \A k \in 1..Len(openAIRequest.messages) : openAIRequest.messages[k].role # "user"

\* the arguments of the upload are ones upload.js rejects
UploadRejected ==
    /\ upc # "idle"
    /\ variant = "upload.js"
    /\ \/ upArgs.filename = ""
       \/ upArgs.authToken = ""
       \/ upArgs.filesize <= 0
       \/ upArgs.filesize > maxFileSize

C21_PutRetriesOnlyTransient ==
    /\ Len(putResponses) <= 1 + maxRetries
    /\ \A k \in 1..Len(putResponses) :
           (k < Len(putResponses) \/ upc = "putDelay") =>
               putResponses[k] \in {"timeout", "500"}
    /\ \A k \in 1..Len(putResponses) :
           putResponses[k] = "403" =>
               /\ k = Len(putResponses)
               /\ upc = "done"
               /\ upResult.kind = "thrown"

(***************************************************************************)
(* Properties of the front of the gateway.                                 *)
(***************************************************************************)
\* the Authorization header of the request in flight carries the secret:
\* one of its parts is the secret, blanks around it aside
CarriesSecret ==
    /\ gwRequest.header.scheme # "absent"
    /\ \E k \in 1..Len(gwRequest.header.parts) :
           TrimStr(gwRequest.header.parts[k]) = config.secret

\* C22: with a secret configured (SALT of main.ts, OPENAI_API_KEY of
\* part_000), a request to a path other than "/" whose Authorization header
\* does not carry the secret never reaches a route, makes no upstream call,
\* and is answered 401 once authMiddleware has run.
C22_NoSecretNoUpstreamCall ==
    (/\ config.secret # ""
     /\ gpc # "idle"
     /\ gwRequest.path # "/"
     /\ ~CarriesSecret)
        => /\ gwCalls = <<>>
           /\ gpc \in {"auth", "answered"}
           /\ gpc = "answered" => gwStatus = 401

\* C22 witness: in server-side mode with a salt, a request for the model
\* list with another value in its header has been answered 401 without an
\* upstream call, after a request with the salt was served.
C22_Witness ==
    /\ server = "main.ts"
    /\ config.secret = SECRET
    /\ config.useDenoEnv
    /\ gwRequest = [path |-> "/v1/models", header |-> Header("Bearer", <<"wrong">>)]
    /\ gpc = "answered"
    /\ gwStatus = 401
    /\ gwCalls = <<>>
    /\ Len(tokensUsed) = 1

\* several upstream tokens are configured and the script takes its upstream
\* token from the configuration
SeveralTokens ==
    /\ Len(config.tokens) >= 2
    /\ server = "part_000" \/ config.useDenoEnv

\* C23 as stated: with several tokens configured every upstream call carries
\* exactly one of them, the rotation index stays within the list, and any n
\* consecutive requests over n tokens use each token exactly once.
C23_TokensRotate ==
    SeveralTokens =>
        LET n == Len(config.tokens)
        IN  /\ tokenIndex \in 0..(n - 1)
            /\ \A k \in 1..Len(gwCalls) :
                   \E i \in 1..n : gwCalls[k].token = <<config.tokens[i]>>
            /\ \A k \in 1..Len(tokensUsed) :
                   \E i \in 1..n : tokensUsed[k] = <<config.tokens[i]>>
            /\ \A k \in 1..(Len(tokensUsed) - n + 1) :
                   {tokensUsed[j] : j \in k..(k + n - 1)} = {<<config.tokens[i]>> : i \in 1..n}

(***************************************************************************)
(* Properties of two streams translated at the same time.                  *)
(***************************************************************************)
\* what a transformer of its own enqueues for the first k frames of the
\* second stream, each received as one chunk
RECURSIVE Alone(_)
Alone(k) ==
    IF k = 0 THEN NewClosure
    ELSE TransformChunk(Alone(k - 1), Units(peerInput[k]))

\* the image deltas in what the second stream has enqueued
PeerImageDeltas ==
    {k \in 1..Len(peer.out) : peer.out[k] = Chunk(MdImage(CDN_URL), "null")}

\* C24: what the second stream has enqueued, and its closure state, are what
\* a transformer running alone gives for the frames it has received,
\* whatever the first stream has received; an asset URL the second stream
\* has received is emitted in it exactly once, and its answer text is
\* emitted, also when the first stream has emitted that URL or an error.
C24_StreamsDoNotInterfere ==
    /\ peer = IF peerClosed THEN FlushStream(Alone(peerPos)) ELSE Alone(peerPos)
    /\ (\E k \in 1..peerPos : peerInput[k] = Framed("gen")) =>
           Cardinality(PeerImageDeltas) = 1
    /\ (/\ \E k \in 1..peerPos : peerInput[k] = Framed("ans")
        /\ \A k \in 1..peerPos : peerInput[k] # Framed("err")) =>
           \E k \in 1..Len(peer.out) : peer.out[k] = Chunk("hi", "null")

\* C24 witness: the first stream has emitted the asset URL and then an
\* error; the second stream, which received the same URL and an answer,
\* has emitted both and its end marker.
C24_Witness ==
    /\ CDN_URL \in sentImageUrls
    /\ errorDetected
    /\ peerInput = <<Framed("gen"), Framed("ans")>>
    /\ peerClosed
    /\ peer.out = <<Chunk(MdImage(CDN_URL), "null"), Chunk("hi", "null"), DoneMarker>>

(***************************************************************************)
(* Properties of the line splitting.                                       *)
(***************************************************************************)
\* the bytes of the first k items the backend has written
RECURSIVE WrittenUnits(_)
WrittenUnits(k) == IF k = 0 THEN <<>> ELSE WrittenUnits(k - 1) \o Units(written[k])

\* the bytes transform has received so far
Received ==
    LET all == WrittenUnits(Len(written))
    IN  SubSeq(all, 1, Len(all) - Len(wire))

\* what follows the last line feed of s: the trailing partial line
RECURSIVE PartialLine(_)
PartialLine(s) ==
    IF Len(s) = 0 \/ s[Len(s)] = NL THEN <<>>
    ELSE Append(PartialLine(SubSeq(s, 1, Len(s) - 1)), s[Len(s)])

\* C25 as stated: as long as the stream is open and no error was detected,
\* the partial line at the end of the bytes received (what follows the last
\* line feed) is the end of the receive buffer: it was neither parsed nor
\* dropped nor forwarded.
C25_PartialLineKept ==
    (~closed /\ ~errorDetected) =>
        LET t == PartialLine(Received)
        IN  /\ Len(t) <= Len(buffer)
            /\ SubSeq(buffer, Len(buffer) - Len(t) + 1, Len(buffer)) = t

\* the state of a transformer that received the first k items the backend
\* has written, one chunk per item
RECURSIVE PerFrame(_)
PerFrame(k) ==
    IF k = 0 THEN NewClosure
    ELSE TransformChunk(PerFrame(k - 1), Units(written[k]))

\* C26 as stated: when the stream has ended, what the translator has emitted
\* is what it emits for the same bytes delivered one chunk per frame,
\* however the network has cut them.
C26_ChunkingIrrelevant ==
    closed => output = FlushStream(PerFrame(Len(written))).out

(***************************************************************************)
(* Properties of the deltas and the end marker.                            *)
(***************************************************************************)
\* C27 as stated: the output holds at most one end marker "data: [DONE]",
\* and nothing follows it.
C27_OneMarkerLast ==
    \A k \in 1..Len(output) : output[k] = DoneMarker => k = Len(output)

\* C28: every delta in the output has non-empty content or finish_reason
\* stop, and the asset URL is emitted once: a frame whose only content is a
\* URL already emitted adds no delta unless it ends the phase.
C28_NoEmptyDelta ==
    /\ \A k \in 1..Len(output) :
           output[k].t = "chunk" =>
               output[k].content # "" \/ output[k].finish_reason = "stop"
    /\ Cardinality(MdChunks(CDN_URL)) <= 1

\* C28 witness: the backend wrote the URL frame twice and then the same URL
\* with status finished; the output is the image delta, nothing for the
\* repetition, and an empty delta with finish_reason stop.
C28_Witness ==
    /\ written = <<Framed("gen"), Framed("gen"), Framed("genfin")>>
    /\ wire = <<>>
    /\ output = <<Chunk(MdImage(CDN_URL), "null"), Chunk("", "stop")>>

\* the frames written that signal the end: status finished or finish_reason stop
FinishedFrames ==
    {k \in 1..Len(written) :
        /\ written[k][2] \in FrameIds
        /\ \/ FrameOf(written[k][2]).status = "finished"
           \/ FrameOf(written[k][2]).finish_reason = "stop"}

\* the deltas emitted with finish_reason stop
StopDeltas == {k \in 1..Len(output) : output[k].t = "chunk" /\ output[k].finish_reason = "stop"}

\* C29 as stated: in a finished stream whose chunking had no effect on the
\* output, every frame with status finished or finish_reason stop has given
\* a delta with finish_reason stop, with or without content and in whichever
\* response shape.
C29_FinishedFrameEmitsStop ==
    (closed /\ output = FlushStream(PerFrame(Len(written))).out) =>
        Cardinality(StopDeltas) >= Cardinality(FinishedFrames)

\* the state of the transformer of part_000 that received the first k items
\* the backend has written, one chunk per item
RECURSIVE DenoPerFrame(_)
DenoPerFrame(k) ==
    IF k = 0 THEN NewClosure
    ELSE DenoTransformChunk(DenoPerFrame(k - 1), Units(written[k]))

\* the stream has ended and its chunking had no effect on the output
ClosedAsPerFrame ==
    /\ closed
    /\ output = IF translator = "main.ts"
                THEN FlushStream(PerFrame(Len(written))).out
                ELSE DenoFlushStream(DenoPerFrame(Len(written))).out

\* the payloads written that are no JSON document and not the end marker
NonJsonPayloads ==
    {k \in 1..Len(written) : written[k][2] \notin FrameIds /\ written[k][2] # DONE}

\* C30 as stated: in a finished stream whose chunking had no effect on the
\* output, every payload that is no valid JSON and not [DONE] has been
\* forwarded verbatim as a content delta, and every answer frame has been
\* translated, those after such a payload included.
C30_NonJsonForwarded ==
    ClosedAsPerFrame =>
        /\ \A k \in NonJsonPayloads :
               \E j \in 1..Len(output) : output[j] = Chunk(written[k][2], "null")
        /\ Cardinality({j \in 1..Len(output) : output[j] = Chunk("hi", "null")})
               = Cardinality({k \in 1..Len(written) : written[k][2] = "ans"})

(***************************************************************************)
(* Properties of the end of the stream.                                    *)
(***************************************************************************)
\* the body ended after a complete data frame without a boundary: the last
\* item written has no line feed, all items before it have theirs
EndsUnterminated ==
    /\ Len(written) >= 1
    /\ written[Len(written)] = Unterminated("ans")
    /\ \A k \in 1..(Len(written) - 1) : written[k] # Unterminated("ans")

\* C31 as stated: when the body ended after a complete data frame without a
\* boundary (and the chunking had no effect on the output), the content of
\* every frame received, the last one included, was delivered before the
\* end marker.
C31_LastFrameDelivered ==
    (ClosedAsPerFrame /\ EndsUnterminated) =>
        /\ Cardinality({j \in 1..Len(output) : output[j] = Chunk("hi", "null")}) = Len(written)
        /\ output[Len(output)] = DoneMarker

(***************************************************************************)
(* The cache path of parserMessages together with uploadFileToQwenOss.     *)
(***************************************************************************)
InitUploadAndCache == InitParser \/ InitUpload

UploadAndCacheNext == ParserNext \/ UploadNext

SpecUploadAndCache == InitUploadAndCache /\ [][UploadAndCacheNext]_vars

\* the items of call p whose url has signature g
ItemsOf(p, g) == {x \in InlineImages(g) : x[1] = p}

\* the items of signature g that call p rewrote from the cache
CacheRewritesBy(p, g) ==
    Len(SelectSeq(rewrites, LAMBDA r : r.call = p /\ r.signature = g /\ r.via = "cache"))

\* the entries a step adds to rewrites
NewRewrites == {rewrites'[k] : k \in (Len(rewrites) + 1)..Len(rewrites')}

\* the entries a step adds to uploadsIssued
NewUploads == {uploadsIssued'[k] : k \in (Len(uploadsIssued) + 1)..Len(uploadsIssued')}

\* C32: an image whose signature the cache holds is rewritten to the cached
\* URL and no upload is issued for it; for one the cache does not hold, the
\* upload issues the credential request and then the PUT (no PUT before a
\* credential answer, no result before a PUT answered 200), and when the
\* upload has returned the cache holds its URL under the signature before
\* the part is rewritten and before the call returns.
C32_HitReturnsCachedMissUploadsThenCaches ==
    /\ [][/\ \A r \in NewRewrites :
               /\ r.via = "cache" => r.url # "" /\ r.url = cache'[r.signature]
               /\ r.via = "upload" => cache'[r.signature] = r.url
          /\ \A u \in NewUploads : cache'[u.signature] = ""]_vars
    /\ [](\A p \in Callers, g \in Signatures :
              /\ UploadsBy(p, g) + CacheRewritesBy(p, g) <= Cardinality(ItemsOf(p, g))
              /\ ppc[p] = "done" =>
                     \A k \in 1..Len(rewrites) :
                         rewrites[k].call = p /\ rewrites[k].signature = g => cache[g] # "")
    /\ [](/\ putResponses # <<>> =>
                 /\ stsResponses # <<>>
                 /\ stsResponses[Len(stsResponses)] = "ok"
          /\ upResult.kind = "returned" =>
                 /\ putResponses # <<>>
                 /\ putResponses[Len(putResponses)] = "ok"
                 /\ upResult.file_url # "")

\* C32 witness: a call with the same image twice has returned; it uploaded
\* the image once, and the second part was rewritten from the cache to the
\* URL the upload delivered.
C32_Witness ==
    \E p \in Callers, g \in Signatures :
        /\ ppc[p] = "done"
        /\ Cardinality(ItemsOf(p, g)) = 2
        /\ UploadsBy(p, g) = 1
        /\ CacheRewritesBy(p, g) = 1
        /\ \E k \in 1..Len(rewrites) :
             /\ rewrites[k].call = p
             /\ rewrites[k].via = "cache"
             /\ rewrites[k].url = cache[g]

\* the credential requests answered 200 so far
CredentialsObtained ==
    Cardinality({k \in 1..Len(stsResponses) : stsResponses[k] = "ok"})

\* the first PUT of the upload has been started
PutStarted == stsResponses # <<>> /\ stsResponses[Len(stsResponses)] = "ok"

\* C33: within one upload, once the first PUT has been started no credential
\* request is issued any more (none is awaited, none is answered), and every
\* PUT, retries included, follows the one credential request answered 200.
C33_CredentialNotRefetched ==
    /\ [][PutStarted =>
              /\ stsResponses' = stsResponses
              /\ upc' \notin {"awaitSts", "stsDelay"}]_vars
    /\ [](/\ CredentialsObtained <= 1
          /\ putResponses # <<>> \/ upc \in {"awaitPut", "putDelay"} =>
                 PutStarted /\ CredentialsObtained = 1)

\* C33 witness: the credential request was retried once and then answered
\* 200, the PUT failed twice and its third attempt is under way.
C33_Witness ==
    /\ variant = "upload.js"
    /\ stsResponses = <<"timeout", "ok">>
    /\ Len(putResponses) = 2
    /\ putRetryCount = 2
    /\ upc = "awaitPut"

\* the URLs that returned uploads of images of signature g delivered
UploadedUrls(g) ==
    {SuccessfulUploads(g)[k].url : k \in 1..Len(SuccessfulUploads(g))}

\* C34: the cache maps a signature only to a URL that a returned upload of
\* an image of that signature delivered, and a step in which an upload fails
\* (uploadFileToQwenOss throws) leaves every entry of the cache as it was;
\* an entry changes only in a step in which an upload of its signature
\* returns, and then to the URL of that upload.
C34_CacheHoldsOnlyUploadedUrls ==
    /\ [](\A g \in Signatures : cache[g] # "" => cache[g] \in UploadedUrls(g))
    /\ [][/\ failedItems' # failedItems => cache' = cache
          /\ \A g \in Signatures :
               cache'[g] # cache[g] =>
                   \E r \in NewRewrites :
                       r.via = "upload" /\ r.signature = g /\ r.url = cache'[g]]_vars

\* C34 witness: one call's upload of an image has returned and is cached,
\* the other call's upload of the same image has failed, and the cache holds
\* the URL of the upload that returned.
C34_Witness ==
    \E g \in Signatures :
        /\ AllDone
        /\ \A p \in Callers : UploadsBy(p, g) = 1
        /\ \E x \in failedItems : x \in [call : Callers, m : {1}, i : {1}]
        /\ Len(SuccessfulUploads(g)) = 1
        /\ cache[g] = SuccessfulUploads(g)[1].url

\* the messages call p was given
Original(p) == ParserCall(pcalls[p]).messages

\* the upload of no item of call p has failed
NoneFailed(p) == \A x \in failedItems : x.call # p

\* the text parts of call p that come after two or more items placed for
\* their message: <<m, i>> with an image or text part at every earlier place
LateTexts(p) ==
    UNION {{<<m, i>> : i \in {j \in 3..Len(Original(p)[m].content.parts) :
                                /\ Original(p)[m].role \in {"user", "assistant"}
                                /\ Original(p)[m].content.kind = "array"
                                /\ Original(p)[m].content.parts[j].type = "text"
                                /\ \A h \in 1..(j - 1) :
                                     Original(p)[m].content.parts[h].type
                                         \in {"image_url", "text"}}} :
           m \in 1..Len(Original(p))}

\* the messages of call p, in the array as it is now, that are user messages
\* whose content is the string text
MessagesSaying(p, text) ==
    {k \in 1..Len(pmsgs[p]) :
        /\ pmsgs[p][k].role = "user"
        /\ pmsgs[p][k].content.kind = "string"
        /\ pmsgs[p][k].content.parts[1].v = text}

\* a late text part is the content of exactly one user message, and that
\* message was appended behind the messages the call was given
AppendedOnce(p, x) ==
    LET text == Original(p)[x[1]].content.parts[x[2]].v
    IN  /\ Cardinality(MessagesSaying(p, text)) = 1
        /\ \A k \in MessagesSaying(p, text) : k > Len(Original(p))

\* a late text part is no longer a part of the message it came in
TakenOut(p, x) ==
    LET text == Original(p)[x[1]].content.parts[x[2]].v
        parts == pmsgs[p][x[1]].content.parts
    IN  \A j \in 1..Len(parts) : ~(parts[j].type = "text" /\ parts[j].v = text)

\* C35 as stated: when a call has returned (no upload having failed), a text
\* part that came after two or more placed items of its message has been
\* taken out of that message and is, exactly once, the content of a new user
\* message appended behind the messages given.
C35_LateTextMovedToNewMessage ==
    \A p \in Callers :
        ppc[p] = "done" /\ NoneFailed(p) =>
            \A x \in LateTexts(p) : AppendedOnce(p, x) /\ TakenOut(p, x)

(***************************************************************************)
(* processMessagesForQwen, src/unnamed/part_000 195-269.  The function     *)
(* builds a new array and shares nothing with other calls (it has no       *)
(* cache), so a call is one step; which of its uploads fail is chosen      *)
(* with the step.                                                          *)
(***************************************************************************)
\* part.image_url.url.startsWith('data:'), for the URLs of the calls made
\* (each of them also matches the pattern of line 211)
IsDataUri(url) == \E mime \in Mimes, d \in Payloads : url = DataUrl(mime, d)

\* textParts.join('\n')
RECURSIVE JoinLines(_)
JoinLines(texts) ==
    IF Len(texts) = 0 THEN ""
    ELSE IF Len(texts) = 1 THEN texts[1]
    ELSE texts[1] \o "\n" \o JoinLines(Tail(texts))

\* the texts of the text parts, in order
RECURSIVE TextParts(_)
TextParts(parts) ==
    IF Len(parts) = 0 THEN <<>>
    ELSE (IF Head(parts).type = "text" THEN <<Head(parts).v>> ELSE <<>>)
             \o TextParts(Tail(parts))

\* part_000 240-257: runs of text parts become one text part each
RECURSIVE Flattened(_, _)
Flattened(newContent, textParts) ==
    LET pending == IF Len(textParts) > 0
                   THEN <<PItem("text", JoinLines(textParts))>>
                   ELSE <<>>
    IN  IF Len(newContent) = 0 THEN pending
        ELSE IF Head(newContent).type = "text"
        THEN Flattened(Tail(newContent), Append(textParts, Head(newContent).v))
        ELSE pending \o <<Head(newContent)>> \o Flattened(Tail(newContent), <<>>)

\* the loop over the parts of one message, part_000 206-236, from part i on;
\* st collects newContent, hasImage and the uploads made
RECURSIVE DenoParts(_, _, _, _, _)
DenoParts(st, parts, m, i, fails) ==
    IF i > Len(parts) THEN st
    ELSE LET part == parts[i]
             url == FileUrl(st.base + Len(st.ups) + 1)
             signature == sha256Encrypt(StripDataPrefix(part.v))
         IN  IF part.type = "image_url" /\ IsDataUri(part.v)
             THEN DenoParts(
                      [st EXCEPT
                          !.hasImage = TRUE,
                          !.ups = Append(st.ups, [signature |-> signature]),
                          !.rew = IF <<m, i>> \in fails THEN st.rew
                                  ELSE Append(st.rew, [signature |-> signature, url |-> url]),
                          !.newContent =
                              Append(st.newContent,
                                     IF <<m, i>> \in fails
                                     THEN PItem("text", "[Image upload failed: error]")
                                     ELSE PItem("image", url))],
                      parts, m, i + 1, fails)
             ELSE IF part.type = "image_url"
             THEN DenoParts(
                      [st EXCEPT !.newContent =
                                     Append(st.newContent,
                                            PItem("text", "![]( " \o part.v \o " )"))],
                      parts, m, i + 1, fails)
             ELSE DenoParts([st EXCEPT !.newContent = Append(st.newContent, part)],
                            parts, m, i + 1, fails)

\* the loop over the messages, part_000 201-267, from message m on
RECURSIVE processMessagesForQwen(_, _, _, _)
processMessagesForQwen(st, messages, m, fails) ==
    IF m > Len(messages) THEN st
    ELSE LET message == messages[m]
         IN  IF message.role = "user" /\ message.content.kind = "array"
             THEN LET done == DenoParts([st EXCEPT !.newContent = <<>>, !.hasImage = FALSE],
                                        message.content.parts, m, 1, fails)
                      content ==
                          IF done.hasImage
                          THEN [kind |-> "array", parts |-> Flattened(done.newContent, <<>>)]
                          ELSE [kind |-> "string",
                                parts |-> <<PItem("text",
                                                  JoinLines(TextParts(message.content.parts)))>>]
                  IN  processMessagesForQwen(
                          [done EXCEPT !.out = Append(done.out,
                                                      [message EXCEPT !.content = content])],
                          messages, m + 1, fails)
             ELSE processMessagesForQwen([st EXCEPT !.out = Append(st.out, message)],
                                         messages, m + 1, fails)

\* the places <<m, i>> of the inline images of a message array
DataUriPlaces(messages) ==
    UNION {{<<m, i>> : i \in {j \in 1..Len(messages[m].content.parts) :
                                /\ messages[m].role = "user"
                                /\ messages[m].content.kind = "array"
                                /\ messages[m].content.parts[j].type = "image_url"
                                /\ IsDataUri(messages[m].content.parts[j].v)}} :
           m \in 1..Len(messages)}

DenoInit ==
    /\ pcalls \in [Callers -> ParserCalls]
    /\ pmsgs = [p \in Callers |-> ParserCall(pcalls[p]).messages]
    /\ ppc = [p \in Callers |-> "start"]
    /\ ppos = [p \in Callers |-> [m |-> 1, i |-> 0]]
    /\ pnc = [p \in Callers |-> 0]
    /\ cache = [g \in Signatures |-> ""]
    /\ uploadsIssued = <<>>
    /\ rewrites = <<>>
    /\ failedItems = {}
    /\ rewriter = "part_000"

\* processMessagesForQwen is called for request p (part_000 517) and returns
DenoProcess(p) ==
    /\ rewriter = "part_000"
    /\ ppc[p] = "start"
    /\ \E fails \in SUBSET DataUriPlaces(pmsgs[p]) :
         \E st \in {processMessagesForQwen(
                        [out |-> <<>>, newContent |-> <<>>, hasImage |-> FALSE,
                         ups |-> <<>>, rew |-> <<>>, base |-> Len(uploadsIssued)],
                        pmsgs[p], 1, fails)} :
             /\ pmsgs' = [pmsgs EXCEPT ![p] = st.out]
             /\ uploadsIssued' = uploadsIssued \o
                    [k \in 1..Len(st.ups) |->
                        [call |-> p, signature |-> st.ups[k].signature]]
             /\ rewrites' = rewrites \o
                    [k \in 1..Len(st.rew) |->
                        [call |-> p, signature |-> st.rew[k].signature,
                         url |-> st.rew[k].url, via |-> "upload"]]
             /\ failedItems' = failedItems \cup
                    {[call |-> p, m |-> x[1], i |-> x[2]] : x \in fails}
    /\ ppc' = [ppc EXCEPT ![p] = "done"]
    /\ UNCHANGED <<pcalls, ppos, pnc, cache, rewriter>>
    /\ UNCHANGED parserOthers

DenoNext == \E p \in Callers : DenoProcess(p)

InitRewrite ==
    (ParserInit \/ DenoInit) /\ StreamIdle /\ ReqIdle /\ HelpersIdle /\ UploadIdle
        /\ GatewayIdle /\ PeerIdle

RewriteNext == ParserNext \/ DenoNext

\* the rewriting of the messages by either script
SpecRewrite == InitRewrite /\ [][RewriteNext]_vars

\* C36 as stated: when the rewriting of a call's messages has returned, every
\* message given with the role system has a single string as its content,
\* the concatenation of the texts of its text parts, whether it was given as
\* a string or as a part list.
C36_SystemContentFlattened ==
    \A p \in Callers :
        ppc[p] = "done" =>
            \A m \in 1..Len(Original(p)) :
                Original(p)[m].role = "system" =>
                    /\ pmsgs[p][m].role = "system"
                    /\ pmsgs[p][m].content.kind = "string"
                    /\ pmsgs[p][m].content.parts[1].v = TextsOf(Original(p)[m].content.parts)

\* the places <<m, i>> of the image parts of call p given by a plain URL
ReferencePlaces(p) ==
    UNION {{<<m, i>> : i \in {j \in 1..Len(Original(p)[m].content.parts) :
                                /\ Original(p)[m].content.kind = "array"
                                /\ Original(p)[m].content.parts[j].type = "image_url"
                                /\ Original(p)[m].content.parts[j].v # ""
                                /\ ~IsDataUri(Original(p)[m].content.parts[j].v)}} :
           m \in 1..Len(Original(p))}

\* no upload (hence no credential request) was issued for the part at x
NotUploaded(p, x) ==
    UploadsBy(p, sha256Encrypt(Original(p)[x[1]].content.parts[x[2]].v)) = 0

\* the message of the part at x still carries the part's URL, as it was given
\* or inside the markdown text of part_000 233
StillCarried(p, x) ==
    LET url == Original(p)[x[1]].content.parts[x[2]].v
        parts == pmsgs[p][x[1]].content.parts
    IN  \E j \in 1..Len(parts) : parts[j].v \in {url, "![]( " \o url \o " )"}

\* C37 as stated: an image part given by a plain URL (no data URI) triggers
\* no credential request and no upload, and when the rewriting has returned
\* the part is still in its message, as it was or reformatted.
C37_ReferencePassedThrough ==
    \A p \in Callers :
        \A x \in ReferencePlaces(p) :
            /\ NotUploaded(p, x)
            /\ ppc[p] = "done" => StillCarried(p, x)

\* the model names made of the base name and a combination of the recognized
\* suffixes, none of them twice
CombinationNames ==
    UNION {{BaseModel \o r \o x : x \in {y \in Suffixes \cup {<<>>} : y = <<>> \/ y # r}} :
           r \in Suffixes \cup {<<>>}}

\* C38 as stated: for every model name made of the base name and a
\* combination of the recognized suffixes, the model identifier sent upstream
\* (parserModel of the Dockerfile, qwenModel of main.ts and of part_000) is
\* the base name.
C38_SuffixesStripped ==
    modelName \in CombinationNames /\ parsedModel # <<>> =>
        /\ parsedModel = BaseModel
        /\ MainQwenModel(modelName) = BaseModel
        /\ DenoQwenModel(modelName) = BaseModel

\* the request is in an image mode and its chat call has been made
ImageChatSent ==
    /\ MainChatType(openAIRequest.model) \in {"t2i", "image_edit"}
    /\ Len(calls) = 2
    /\ calls[1].url = "chats/new"
    /\ calls[2].url = "chat/completions"

\* C39 as stated: for a request in an image mode, the chat type the session
\* was created for is the chat type of the message sent in that session, and
\* chat_type, sub_chat_type and extra.meta.subChatType of the message all
\* carry that value.
C39_SessionAndMessageChatTypeAgree ==
    ImageChatSent =>
        /\ calls[1].chat_type = calls[2].body.chat_type
        /\ calls[2].body.sub_chat_type = calls[2].body.chat_type
        /\ calls[2].body.subChatType = calls[2].body.chat_type

\* the text parts in the part lists of the messages call p was given
TextPartCount(p) ==
    Cardinality(UNION {{<<m, i>> : i \in {j \in 1..Len(Original(p)[m].content.parts) :
                                            /\ Original(p)[m].content.kind = "array"
                                            /\ Original(p)[m].content.parts[j].type = "text"}} :
                       m \in 1..Len(Original(p))})

\* the places in the array of call p behind the messages it was given
AppendedPlaces(p) == (Len(Original(p)) + 1)..Len(pmsgs[p])

\* the parts of part lists that the loops of call p have not reached yet
PartsAhead(p) ==
    UNION {{<<m, i>> : i \in {j \in 1..Len(pmsgs[p][m].content.parts) :
                                /\ pmsgs[p][m].content.kind = "array"
                                /\ m > ppos[p].m \/ (m = ppos[p].m /\ j > ppos[p].i)}} :
           m \in 1..Len(pmsgs[p])}

\* what is left of call p: 0 when it has returned
Remaining(p) == IF ppc[p] = "done" THEN 0 ELSE Cardinality(PartsAhead(p)) + 1

\* C40: every call of parserMessages returns although it pushes messages to
\* the array it iterates over.  A pushed message is a user message with a
\* string as content, which the loop skips (so it causes no further push),
\* and the messages pushed are at most as many as the text parts in the
\* messages given; every step of a call brings it closer to its return
\* (the parts its loops have still to visit become fewer, pushed messages
\* adding none), and a call that has not returned stands where one of its
\* steps can be taken: at its start, or at an upload that was issued.
C40_AppendsBoundedAndCallReturns ==
    /\ [](\A p \in Callers :
              Len(Original(p)) > 0 =>
                  /\ Len(pmsgs[p]) >= Len(Original(p))
                  /\ Cardinality(AppendedPlaces(p)) <= TextPartCount(p)
                  /\ \A k \in AppendedPlaces(p) :
                       /\ pmsgs[p][k].role = "user"
                       /\ pmsgs[p][k].content.kind = "string")
    /\ [][/\ \A p \in Callers : Remaining(p)' <= Remaining(p)
          /\ \E p \in Callers : Remaining(p)' < Remaining(p)]_vars
    /\ [](\A p \in Callers :
              ppc[p] # "done" =>
                  /\ rewriter = "Dockerfile"
                  /\ ppc[p] \in {"start", "uploading"}
                  /\ ppc[p] = "uploading" =>
                         /\ ppos[p].m \in 1..Len(pmsgs[p])
                         /\ ppos[p].i \in 1..Len(pmsgs[p][ppos[p].m].content.parts)
                         /\ \E k \in 1..Len(uploadsIssued) : uploadsIssued[k].call = p)

\* C40 witness: a call has returned with one message pushed behind the
\* messages it was given, and the loop has passed over it.
C40_Witness ==
    \E p \in Callers :
        /\ ppc[p] = "done"
        /\ Len(Original(p)) > 0
        /\ Cardinality(AppendedPlaces(p)) = 1
        /\ ppos[p].m > Len(pmsgs[p])

====
